---- MODULE Spec2Model ----
(***************************************************************************)
(* Workflow execution engine of nodeflow: WorkflowExecutor                 *)
(* (src/lib/constructorParser.ts, lines 220-945).                          *)
(*                                                                         *)
(* Node ids are opaque strings in the source and are only ever compared    *)
(* for equality (Map keys, Array.find), so they are modelled as the        *)
(* naturals 1..MaxNodes.  A JavaScript Map is modelled as a sequence of    *)
(* [key, val] entries, which keeps the insertion order that Map.forEach    *)
(* and Map.entries iterate in.  Messages are sequences of strings: the     *)
(* template literal `Failed at node "${label}": ${msg}` becomes the        *)
(* concatenation <<"Failed at node", label>> \o msg.                        *)
(***************************************************************************)
EXTENDS Integers, Sequences, FiniteSets, TLC

\* Bounds of the model: the length of context.nodes and of context.edges.
MaxNodes == 3
MaxEdges == 2

\* Bound of the model: the number of execute() calls made on one executor.
MaxRuns == 2

NodeIds == 1..MaxNodes

VARIABLES
    nodes,          \* context.nodes: sequence of node records
    edges,          \* context.edges: sequence of [source, target]
    selectedNetwork,\* context.selectedNetwork
    executionData,  \* this.executionData: Map<string, any>
    stopped,        \* this.stopped
    pc,             \* position of the execute() coroutine
    executionOrder, \* const executionOrder of the run
    pos,            \* index into executionOrder of the node being dispatched
    pending,        \* result produced by executeNode, held during the delay
    result,         \* the ExecutionResult execute() resolved with
    trace,          \* callbacks, handler and collaborator calls of the run
    world,          \* the collaborators: Null, or the answers they always give
    run,            \* the number of execute() calls made on this executor
    previous,       \* how the run before the current one ended (history)
    reentry,        \* Null, or the two runs in flight after execute() was
                    \* called while a run was suspended
    generator,      \* Null, or the workflow generator: its clock and output
    batch,          \* Null, or a batchCompileContracts call
    request,        \* Null, or a request to the compile API route
    wallet          \* Null, or the wallet service: wallet, cache, call in flight

vars == <<nodes, edges, selectedNetwork, executionData, stopped, pc,
          executionOrder, pos, pending, result, trace, world, run, previous,
          reentry, generator, batch, request, wallet>>

\* The state outside the executor
outside == <<generator, batch, request, wallet>>

----------------------------------------------------------------------------
\* Sequence and Map helpers

Range(s) == {s[i] : i \in 1..Len(s)}

SeqsUpTo(S, n) == UNION {[1..k -> S] : k \in 0..n}

MapHas(m, k) == \E i \in 1..Len(m) : m[i].key = k

MapGet(m, k, default) ==
    IF MapHas(m, k)
    THEN m[CHOOSE i \in 1..Len(m) : m[i].key = k].val
    ELSE default

\* Map.prototype.set: an existing key keeps its position, a new key is appended
MapSet(m, k, v) ==
    IF MapHas(m, k)
    THEN [i \in 1..Len(m) |-> IF m[i].key = k THEN [key |-> k, val |-> v] ELSE m[i]]
    ELSE Append(m, [key |-> k, val |-> v])

MapKeys(m) == [i \in 1..Len(m) |-> m[i].key]

----------------------------------------------------------------------------
\* buildExecutionOrder (Kahn's algorithm)

\* nodes.forEach: inDegree.set(node.id, 0)
RECURSIVE InitInDegree(_, _)
InitInDegree(ns, m) ==
    IF ns = <<>> THEN m
    ELSE InitInDegree(Tail(ns), MapSet(m, Head(ns).id, 0))

\* nodes.forEach: adjacencyList.set(node.id, [])
RECURSIVE InitAdjacency(_, _)
InitAdjacency(ns, m) ==
    IF ns = <<>> THEN m
    ELSE InitAdjacency(Tail(ns), MapSet(m, Head(ns).id, <<>>))

\* BuildInDegree counting the edges by their source
RECURSIVE BuildInDegreeOfSource(_, _)
BuildInDegreeOfSource(es, m) ==
    IF es = <<>> THEN m
    ELSE BuildInDegreeOfSource(Tail(es),
            MapSet(m, Head(es).source, MapGet(m, Head(es).source, 0) + 1))

\* edges.forEach: inDegree.set(edge.target, (inDegree.get(edge.target) || 0) + 1)
RECURSIVE BuildInDegree(_, _)
BuildInDegree(es, m) ==
    IF es = <<>> THEN m
    ELSE BuildInDegree(Tail(es),
                       MapSet(m, Head(es).target, MapGet(m, Head(es).target, 0) + 1))

\* edges.forEach: adjacencyList.get(edge.source)?.push(edge.target)
RECURSIVE BuildAdjacency(_, _)
BuildAdjacency(es, m) ==
    IF es = <<>> THEN m
    ELSE BuildAdjacency(Tail(es),
            IF MapHas(m, Head(es).source)
            THEN MapSet(m, Head(es).source,
                        Append(MapGet(m, Head(es).source, <<>>), Head(es).target))
            ELSE m)

\* inDegree.forEach((degree, nodeId) => { if (degree === 0) queue.push(nodeId) })
RECURSIVE SeedQueue(_)
SeedQueue(m) ==
    IF m = <<>> THEN <<>>
    ELSE IF Head(m).val = 0
         THEN <<Head(m).key>> \o SeedQueue(Tail(m))
         ELSE SeedQueue(Tail(m))

\* Relax putting a released neighbor at the front of the queue
RECURSIVE RelaxLifo(_, _)
RelaxLifo(neighbors, st) ==
    IF neighbors = <<>> THEN st
    ELSE LET neighbor == Head(neighbors)
             newDegree == MapGet(st.inDegree, neighbor, 0) - 1
         IN  RelaxLifo(Tail(neighbors),
                   [queue |-> IF newDegree = 0 THEN <<neighbor>> \o st.queue
                              ELSE st.queue,
                    inDegree |-> MapSet(st.inDegree, neighbor, newDegree)])

\* adjacencyList.get(nodeId)?.forEach((neighbor) => {
\*   const newDegree = (inDegree.get(neighbor) || 0) - 1;
\*   inDegree.set(neighbor, newDegree);
\*   if (newDegree === 0) queue.push(neighbor); })
\* st = [queue, inDegree]
RECURSIVE Relax(_, _)
Relax(neighbors, st) ==
    IF neighbors = <<>> THEN st
    ELSE LET neighbor == Head(neighbors)
             newDegree == MapGet(st.inDegree, neighbor, 0) - 1
         IN  Relax(Tail(neighbors),
                   [queue |-> IF newDegree = 0 THEN Append(st.queue, neighbor)
                              ELSE st.queue,
                    inDegree |-> MapSet(st.inDegree, neighbor, newDegree)])

\* while (queue.length > 0) { const nodeId = queue.shift()!; result.push(nodeId); ... }
RECURSIVE Kahn(_, _, _, _)
Kahn(queue, res, inDegree, adjacencyList) ==
    IF queue = <<>> THEN res
    ELSE LET nodeId == Head(queue)
             st == Relax(MapGet(adjacencyList, nodeId, <<>>),
                         [queue |-> Tail(queue), inDegree |-> inDegree])
         IN  Kahn(st.queue, Append(res, nodeId), st.inDegree, adjacencyList)

\* TopologicalSort keeping the order the nodes are supplied in
TopologicalSortSupplied(ns, es) == [p \in 1..Len(ns) |-> ns[p].id]

TopologicalSort(ns, es) ==
    LET inDegree == BuildInDegree(es, InitInDegree(ns, <<>>))
        adjacencyList == BuildAdjacency(es, InitAdjacency(ns, <<>>))
    IN  Kahn(SeedQueue(inDegree), <<>>, inDegree, adjacencyList)

\* if (result.length !== nodes.length) throw new Error('Workflow contains a cycle...')
CycleDetected(res, ns) == Len(res) # Len(ns)

\* [threw |-> TRUE] models the thrown Error, [threw |-> FALSE, order] the return
BuildExecutionOrder(ns, es) ==
    LET res == TopologicalSort(ns, es)
    IN  IF CycleDetected(res, ns)
        THEN [threw |-> TRUE, order |-> <<>>]
        ELSE [threw |-> FALSE, order |-> res]

----------------------------------------------------------------------------
\* Values

\* null / undefined
Null == [null |-> TRUE]

\* No generator, batch, API request or wallet service takes part
InitOutside ==
    /\ generator = Null
    /\ batch = Null
    /\ request = Null
    /\ wallet = Null

Has(r, f) == f \in DOMAIN r

\* JavaScript truthiness of a string held in field f of r (a sequence of
\* characters): present and not ''
TruthyField(r, f) == r # Null /\ Has(r, f) /\ r[f] # <<>>

\* A Move source text, by the features the validators look at:
\*   text     "absent" (undefined), "empty" (''), "blank" (only whitespace), "text"
\*   mentions whether it includes the word 'module'
\*   address  the named address of the first `module <addr>::<name>`, "" if none
\*   name     the module name of that declaration
\*   brace    whether the declaration is followed by `{`
ValidCode ==
    [text |-> "text", mentions |-> TRUE, address |-> "Deployer", name |-> "Foo",
     brace |-> TRUE]

AbsentCode ==
    [text |-> "absent", mentions |-> FALSE, address |-> "", name |-> "",
     brace |-> FALSE]

\* !sourceCode
FalsyCode(code) == code.text \in {"absent", "empty"}

\* validateMoveCode
ValidateMoveCode(code) ==
    IF FalsyCode(code) \/ code.text = "blank"
    THEN [valid |-> FALSE, message |-> <<"Source code is empty">>]
    ELSE IF ~code.mentions
    THEN [valid |-> FALSE,
          message |-> <<"Missing \"module\" declaration. Please specify a Move module.">>]
    ELSE IF code.address = ""
    THEN [valid |-> FALSE,
          message |-> <<"Invalid module declaration. Expected format: module Deployer::<module_name>">>]
    ELSE IF code.address # "Deployer"
    THEN [valid |-> FALSE,
          message |-> <<"Module must use \"Deployer\" as named address. Found:", code.address>>]
    ELSE [valid |-> TRUE, message |-> <<>>]

\* extractContractName: the name, or "" for null
ExtractContractName(code) ==
    IF code.address # "" /\ code.brace THEN code.name ELSE ""

\* Bytecode strings, as sequences of characters
GoodBytecode == <<"0", "x", "a", "1">>
BarePrefix == <<"0", "x">>
EmptyString == <<>>
NonHexBytecode == <<"0", "x", "z", "z">>
OddBytecode == <<"0", "x", "a">>
UnprefixedBytecode == <<"a", "1", "f", "0">>
TwoDigits == <<"a", "1">>

\* [0-9a-fA-F]
HexDigits ==
    {"0", "1", "2", "3", "4", "5", "6", "7", "8", "9",
     "a", "b", "c", "d", "e", "f", "A", "B", "C", "D", "E", "F"}

\* s.startsWith('0x')
StartsWith0x(s) == Len(s) >= 2 /\ s[1] = "0" /\ s[2] = "x"

\* moduleBytecode.startsWith('0x') ? moduleBytecode.slice(2) : moduleBytecode
CleanHex(s) == IF StartsWith0x(s) THEN SubSeq(s, 3, Len(s)) ELSE s

\* /^[0-9a-fA-F]+$/.test(s)
TestHex(s) == s # <<>> /\ \A i \in 1..Len(s) : s[i] \in HexDigits

\* Wallet account addresses; WellFormedAddress is /^0x[a-fA-F0-9]{1,64}$/
WellFormedAddress(a) == a \in {"0xA", "0xB"}

Testnet == [name |-> "Aptos Testnet"]

\* Display labels (node.data.label), one per node type
LabelOf(type) ==
    CASE type = "projectCreate" -> "Create Project"
      [] type = "contractInput" -> "Contract Input"
      [] type = "compile" -> "Compile"
      [] type = "generateABI" -> "Generate ABI"
      [] type = "generateBytecode" -> "Generate Bytecode"
      [] type = "deploy" -> "Deploy"
      [] type = "aiAudit" -> "AI Audit"
      [] type = "completion" -> "Completion"
      [] OTHER -> "Custom"

\* A node of the graph: id, and the fields of node.data the executor reads
MakeNode(id, type) ==
    [id |-> id, type |-> type, label |-> LabelOf(type),
     projectTitle |-> IF type = "projectCreate" THEN "Demo" ELSE "",
     projectDescription |-> "",
     contractCode |-> IF type = "contractInput" THEN ValidCode ELSE AbsentCode,
     contractName |-> "",
     aiPrompt |-> ""]

\* Events recorded in trace
\*   status   onNodeStatus(id, arg)
\*   edge     onEdgeUpdate(edges annotated for node id with status arg)
\*   data     onNodeUpdate(id, {arg: val}); val is kept for {output: data} and
\*            {error: message} only
\*   handler  the handler of node id is called
\*   collab   the handler of node id calls the collaborator arg; val is the
\*            bytecode passed to deployContract, the wallet address passed to
\*            compileContract
\*   stop     stop() is called while execute() is at arg, at schedule index id
\*   throw    the handler of node id threw an Error with message val
StatusEv(id, status) == [ev |-> "status", id |-> id, arg |-> status, val |-> <<>>]
EdgeEv(id, status) == [ev |-> "edge", id |-> id, arg |-> status, val |-> <<>>]
DataEv(id, field) == [ev |-> "data", id |-> id, arg |-> field, val |-> <<>>]
OutputEv(id, data) == [ev |-> "data", id |-> id, arg |-> "output", val |-> data]
ErrorEv(id, message) == [ev |-> "data", id |-> id, arg |-> "error", val |-> message]
HandlerEv(id) == [ev |-> "handler", id |-> id, arg |-> "", val |-> <<>>]
CollabEv(id, name) == [ev |-> "collab", id |-> id, arg |-> name, val |-> <<>>]
CallEv(id, name, args) == [ev |-> "collab", id |-> id, arg |-> name, val |-> args]
StopEv(at, index) == [ev |-> "stop", id |-> index, arg |-> at, val |-> <<>>]
ThrowEv(id, message) == [ev |-> "throw", id |-> id, arg |-> "", val |-> message]

\* What a handler can do: return a result, or throw
Returned(success, message, data, events) ==
    [threw |-> FALSE, success |-> success, message |-> message, data |-> data,
     events |-> events]

Failure(message, events) == Returned(FALSE, message, Null, events)

Thrown(message, events) ==
    [threw |-> TRUE, success |-> FALSE, message |-> message, data |-> Null,
     events |-> events]

----------------------------------------------------------------------------
\* findPreviousData and generateSummary

\* this.context.nodes.find((n) => n.id === nodeId): the first node with the id
HasNode(ns, id) == \E i \in 1..Len(ns) : ns[i].id = id

FindNode(ns, id) == ns[CHOOSE i \in 1..Len(ns) :
                          ns[i].id = id /\ \A j \in 1..(i - 1) : ns[j].id # id]

\* FindPreviousData finding nothing
FindPreviousDataNothing(ns, store, nodeType) == Null

\* FindPreviousData returning the last entry of the type instead of the first
RECURSIVE FindPreviousDataLast(_, _, _)
FindPreviousDataLast(ns, store, nodeType) ==
    IF store = <<>> THEN Null
    ELSE LET later == FindPreviousDataLast(ns, Tail(store), nodeType)
         IN  IF later # Null THEN later
             ELSE IF HasNode(ns, Head(store).key)
                     /\ FindNode(ns, Head(store).key).type = nodeType
             THEN Head(store).val
             ELSE Null

\* for (const [nodeId, data] of this.executionData.entries()) { ... return data }
RECURSIVE FindPreviousData(_, _, _)
FindPreviousData(ns, store, nodeType) ==
    IF store = <<>> THEN Null
    ELSE IF HasNode(ns, Head(store).key)
            /\ FindNode(ns, Head(store).key).type = nodeType
         THEN Head(store).val
         ELSE FindPreviousData(ns, Tail(store), nodeType)

\* GenerateSummary with a fixed set of sections, whatever the store holds
GenerateSummaryFixed(ns, store, network) ==
    <<<<"Workflow Execution Summary">>, <<"========">>, <<"">>,
      <<"Compilation: Success">>,
      <<"">>, <<"Execution completed at:", "now">>>>

GenerateSummary(ns, store, network) ==
    LET projectData == FindPreviousData(ns, store, "projectCreate")
        contractData == FindPreviousData(ns, store, "contractInput")
        compileData == FindPreviousData(ns, store, "compile")
        deployData == FindPreviousData(ns, store, "deploy")
        aiData == FindPreviousData(ns, store, "aiAudit")
    IN  <<<<"Workflow Execution Summary">>, <<"========">>, <<"">>>>
        \o (IF projectData # Null
            THEN <<<<"Project:", projectData.title>>>>
                 \o (IF projectData.description # ""
                     THEN <<<<"Description:", projectData.description>>>>
                     ELSE <<>>)
                 \o <<<<"">>>>
            ELSE <<>>)
        \o (IF contractData # Null
            THEN <<<<"Contract Name:", contractData.contractName>>>>
            ELSE <<>>)
        \o (IF compileData # Null THEN <<<<"Compilation: Success">>>> ELSE <<>>)
        \o (IF deployData # Null
            THEN <<<<"Deployment: Success">>>>
                 \o (IF Has(deployData, "contractAddress")
                     THEN <<<<"Contract Address:", deployData.contractAddress>>>>
                     ELSE <<>>)
                 \o (IF Has(deployData, "transactionHash")
                     THEN <<<<"Transaction Hash:", deployData.transactionHash>>>>
                     ELSE <<>>)
                 \o (IF network # Null THEN <<<<"Network:", network.name>>>> ELSE <<>>)
            ELSE <<>>)
        \o (IF aiData # Null THEN <<<<"AI Analysis: Completed">>>> ELSE <<>>)
        \o <<<<"">>, <<"Execution completed at:", "now">>>>

----------------------------------------------------------------------------
\* External collaborators: the answers they can give

\* window.aptos.account(): "absent" when there is no window.aptos, "throws",
\* "none" for an account without address, otherwise the address
LiveAnswers == {"absent", "throws", "none", "0xA"}

\* localStorage.getItem('walletAddress'): "" for null.  The cache is written
\* by the UI layer at any time, so a read can return any of these.
SavedAnswers == {"", "junk", "0xA"}

CompileError(text, len) == [text |-> text, len |-> len]

\* The JSON body the compile API answers with
CompilerResponses ==
    { [success |-> TRUE, bytecode |-> GoodBytecode, metadataBytes |-> <<"0", "x", "m">>,
       abi |-> [moduleName |-> "Foo", functions |-> <<"init">>]],
      [success |-> TRUE, bytecode |-> BarePrefix,
       abi |-> [moduleName |-> "Foo", functions |-> <<>>]],
      [success |-> FALSE, errors |-> <<CompileError(<<"error[E1]: bad type">>, 19)>>],
      [success |-> FALSE] }

\* blockchainService.connectWallet resolves with a connection or throws
ConnectAnswers == {"ok", "throws"}

\* deployContract resolves with a DeploymentResult
DeployResponses ==
    { [success |-> TRUE, contractAddress |-> "0xabc", transactionHash |-> "0xdef"],
      [success |-> FALSE, error |-> "Transaction rejected"],
      [success |-> FALSE] }

\* analyzeContract resolves with {success, response?, error?}
AnalyzeResponses ==
    { [success |-> TRUE, response |-> "looks fine"],
      [success |-> FALSE, error |-> "quota exceeded"],
      [success |-> FALSE] }

\* compileContract: its own checks, then the API's answer
CompileContract(code, moduleName, walletAddress, response) ==
    IF walletAddress = ""
    THEN [success |-> FALSE,
          errors |-> <<CompileError(<<"Wallet address is required for compilation.">>, 43),
                       CompileError(<<"Please connect your wallet before compiling.">>, 44)>>]
    ELSE IF ~WellFormedAddress(walletAddress)
    THEN [success |-> FALSE,
          errors |-> <<CompileError(<<"Invalid wallet address format">>, 29)>>]
    ELSE IF ~ValidateMoveCode(code).valid
    THEN [success |-> FALSE,
          errors |-> <<CompileError(ValidateMoveCode(code).message, 40)>>]
    ELSE response

\* deployContract of blockchainService: its own checks of the bytecode, then
\* the answer of the chain
DeployContract(moduleBytecode, moduleName, response) ==
    IF moduleBytecode = <<>>
    THEN [success |-> FALSE, error |-> "Module bytecode is required for deployment"]
    ELSE IF moduleBytecode = BarePrefix
    THEN [success |-> FALSE, error |-> "Bytecode is empty (only \"0x\" prefix found)."]
    ELSE IF moduleName = ""
    THEN [success |-> FALSE, error |-> "Module name is required for deployment"]
    ELSE IF CleanHex(moduleBytecode) = <<>>
    THEN [success |-> FALSE, error |-> "Bytecode is empty."]
    ELSE IF ~TestHex(CleanHex(moduleBytecode))
    THEN [success |-> FALSE, error |-> "Invalid bytecode format. Expected hex string."]
    ELSE IF Len(CleanHex(moduleBytecode)) \div 2 = 0
    THEN [success |-> FALSE, error |-> "Bytecode is empty."]
    ELSE response

----------------------------------------------------------------------------
\* Node handlers.  Each gives the outcome of one handler call for given
\* answers of the collaborators.

ExecuteProjectCreate(node) ==
    IF node.projectTitle = ""
    THEN Failure(<<"Project title is required">>, <<>>)
    ELSE Returned(TRUE, <<"Project initialized">>,
                  [title |-> node.projectTitle,
                   description |-> node.projectDescription,
                   timestamp |-> "now"], <<>>)

ExecuteContractInput(node) ==
    IF FalsyCode(node.contractCode)
    THEN Failure(<<"Contract code is required">>, <<>>)
    ELSE IF ~ValidateMoveCode(node.contractCode).valid
    THEN Failure(IF ValidateMoveCode(node.contractCode).message # <<>>
                 THEN ValidateMoveCode(node.contractCode).message
                 ELSE <<"Invalid Move code">>, <<>>)
    ELSE IF node.contractName # ""
    THEN Returned(TRUE, <<"Contract code validated">>,
                  [contractCode |-> node.contractCode,
                   contractName |-> node.contractName], <<>>)
    ELSE IF ExtractContractName(node.contractCode) = ""
    THEN Failure(<<"Could not extract contract name. Please specify it manually.">>, <<>>)
    ELSE Returned(TRUE, <<"Contract code validated">>,
                  [contractCode |-> node.contractCode,
                   contractName |-> ExtractContractName(node.contractCode)],
                  <<DataEv(node.id, "contractName")>>)

IsAddress(live) == live \notin {"absent", "throws", "none"}

\* ResolveWalletAddress trusting a well-formed cached address without asking
\* the wallet again
ResolveWalletAddressTrusting(live1, live2, saved) ==
    IF IsAddress(live1) THEN live1
    ELSE IF saved # "" /\ WellFormedAddress(saved) THEN saved
    ELSE ""

\* The wallet address executeCompile resolves ("" for undefined), from the
\* answers of the two window.aptos.account() calls and the cached address
ResolveWalletAddress(live1, live2, saved) ==
    IF IsAddress(live1) THEN live1
    ELSE IF saved # "" /\ WellFormedAddress(saved)
    THEN IF live1 = "absent" THEN saved
         ELSE IF live2 = "throws" THEN saved
         ELSE IF live2 = saved THEN saved
         ELSE ""
    ELSE ""

\* The window.aptos.account() calls executeCompile makes
WalletCalls(id, live1, saved) ==
    (IF live1 # "absent" THEN <<CollabEv(id, "wallet.account")>> ELSE <<>>)
    \o (IF ~IsAddress(live1) /\ live1 # "absent" /\ saved # "" /\ WellFormedAddress(saved)
        THEN <<CollabEv(id, "wallet.account")>> ELSE <<>>)

TruncateAt == 500

\* FormatError truncating from the limit on instead of above it
FormatErrorFromLimit(err) ==
    IF err.len >= TruncateAt
    THEN <<"substring(0, 500) of">> \o err.text \o <<"... (truncated)">>
    ELSE err.text

\* err.length > 500 ? `${err.substring(0, 500)}... (truncated)` : err
FormatError(err) ==
    IF err.len > TruncateAt
    THEN <<"substring(0, 500) of">> \o err.text \o <<"... (truncated)">>
    ELSE err.text

\* formattedErrors.join('\n\n')
RECURSIVE JoinErrors(_)
JoinErrors(errs) ==
    IF errs = <<>> THEN <<>>
    ELSE IF Len(errs) = 1 THEN FormatError(Head(errs))
    ELSE FormatError(Head(errs)) \o <<"\n\n">> \o JoinErrors(Tail(errs))

ExecuteCompile(node, ns, store, live1, live2, saved, response) ==
    LET contractData == FindPreviousData(ns, store, "contractInput")
        walletAddress == ResolveWalletAddress(live1, live2, saved)
        calls == WalletCalls(node.id, live1, saved)
    IN  IF contractData = Null \/ FalsyCode(contractData.contractCode)
        THEN Failure(<<"No contract code found. Please add a Contract Input node before compilation.">>,
                     <<>>)
        ELSE IF walletAddress = ""
        THEN Failure(<<"Wallet not connected. Please connect your wallet before compiling.">>,
                     calls)
        ELSE LET res == CompileContract(contractData.contractCode,
                            IF contractData.contractName # ""
                            THEN contractData.contractName ELSE "MyModule",
                            walletAddress, response)
                 called == calls \o <<CallEv(node.id, "compileContract", <<walletAddress>>)>>
             IN  IF ~res.success
                 THEN Failure(IF Has(res, "errors") /\ res.errors # <<>>
                              THEN JoinErrors(res.errors)
                              ELSE <<"Compilation failed">>, called)
                 ELSE Returned(TRUE, <<"Contract compiled successfully">>, res,
                               called \o <<DataEv(node.id, "compilationResult")>>)

ExecuteGenerateABI(node, ns, store) ==
    LET compilationResult == FindPreviousData(ns, store, "compile")
    IN  IF compilationResult = Null \/ ~Has(compilationResult, "abi")
        THEN Failure(<<"No compilation result found. Please compile the contract first.">>,
                     <<>>)
        ELSE Returned(TRUE, <<"ABI generated successfully">>,
                      [abi |-> compilationResult.abi], <<DataEv(node.id, "abi")>>)

\* ExecuteGenerateBytecode passing on whatever bytecode field it finds
ExecuteGenerateBytecodeUnchecked(node, ns, store) ==
    LET compilationResult == FindPreviousData(ns, store, "compile")
    IN  IF compilationResult = Null \/ ~Has(compilationResult, "bytecode")
        THEN Failure(<<"No compilation result found. Please compile the contract first.">>,
                     <<>>)
        ELSE Returned(TRUE, <<"Bytecode generated successfully">>,
                      [bytecode |-> compilationResult.bytecode],
                      <<DataEv(node.id, "bytecode")>>)

\* The compile output is a CompilationResult, whose bytecode is a top-level
\* string: the other locations the handler looks at (data.bytecode,
\* compilationResult.bytecode) are never present in it.
ExecuteGenerateBytecode(node, ns, store) ==
    LET compilationResult == FindPreviousData(ns, store, "compile")
    IN  IF compilationResult = Null
        THEN Failure(<<"No compilation result found. Please compile the contract first.">>,
                     <<>>)
        ELSE IF ~TruthyField(compilationResult, "bytecode")
        THEN Failure(<<"No bytecode found in compilation result. Please ensure compilation completed successfully.">>,
                     <<>>)
        ELSE IF compilationResult.bytecode = BarePrefix
        THEN Failure(<<"Bytecode is empty. Please ensure compilation completed successfully.">>,
                     <<>>)
        ELSE Returned(TRUE, <<"Bytecode generated successfully">>,
                      [bytecode |-> compilationResult.bytecode],
                      <<DataEv(node.id, "bytecode")>>)

\* BytecodeSource without the fallback to the compile output
BytecodeSourceNoFallback(bytecodeData, compilationResult) == bytecodeData

\* bytecodeData?.bytecode, and if that is falsy compilationResult?.bytecode:
\* the stored output the bytecode is read from
BytecodeSource(bytecodeData, compilationResult) ==
    IF TruthyField(bytecodeData, "bytecode") THEN bytecodeData
    ELSE compilationResult

\* BytecodeEmptyOrInvalid letting every bytecode through
BytecodeEmptyOrInvalidNever(bytecode) == FALSE

\* bytecode === '' || bytecode === '0x' || bytecode.length <= 2
BytecodeEmptyOrInvalid(bytecode) ==
    bytecode = EmptyString \/ bytecode = BarePrefix \/ Len(bytecode) <= 2

ExecuteDeploy(node, ns, store, network, connect, response) ==
    LET bytecodeData == FindPreviousData(ns, store, "generateBytecode")
        contractData == FindPreviousData(ns, store, "contractInput")
        compilationResult == FindPreviousData(ns, store, "compile")
        source == BytecodeSource(bytecodeData, compilationResult)
        connected == <<CollabEv(node.id, "connectWallet")>>
    IN  IF ~TruthyField(source, "bytecode")
        THEN Failure(<<"Bytecode is required. Please compile the contract and generate bytecode first. Check console for details.">>,
                     <<>>)
        ELSE IF contractData = Null \/ contractData.contractName = ""
        THEN Failure(<<"Module name is required for deployment.">>, <<>>)
        ELSE IF network = Null
        THEN Failure(<<"No network selected. Please select a network from the top bar.">>,
                     <<>>)
        ELSE IF connect = "throws"
        THEN Thrown(<<"User rejected the connection request">>, connected)
        ELSE IF BytecodeEmptyOrInvalid(source.bytecode)
        THEN Failure(<<"Bytecode is empty or invalid">>, connected)
        ELSE LET called == connected
                           \o <<CallEv(node.id, "deployContract", source.bytecode)>>
                 deployResult == DeployContract(source.bytecode,
                                                contractData.contractName, response)
             IN  IF ~deployResult.success
                 THEN Failure(IF Has(deployResult, "error") THEN <<deployResult.error>>
                              ELSE <<"Deployment failed">>, called)
                 ELSE Returned(TRUE, <<"Contract deployed successfully">>, deployResult,
                               called \o <<DataEv(node.id, "deployedAddress")>>)

ExecuteAIAudit(node, ns, store, response) ==
    LET contractData == FindPreviousData(ns, store, "contractInput")
        called == <<CollabEv(node.id, "analyzeContract")>>
    IN  IF contractData = Null \/ FalsyCode(contractData.contractCode)
        THEN Failure(<<"No contract code found for analysis.">>, <<>>)
        ELSE IF ~response.success
        THEN Failure(IF Has(response, "error") THEN <<response.error>>
                     ELSE <<"AI analysis failed">>, called)
        ELSE Returned(TRUE, <<"AI analysis completed">>,
                      [response |-> response.response],
                      called \o <<DataEv(node.id, "aiResponse")>>)

\* ExecuteCompletion refusing to summarise an empty store
ExecuteCompletionStrict(node, ns, store, network) ==
    IF store = <<>>
    THEN Failure(<<"Nothing to summarise">>, <<>>)
    ELSE Returned(TRUE, <<"Workflow completed">>,
                  [summary |-> GenerateSummary(ns, store, network)],
                  <<DataEv(node.id, "summary")>>)

ExecuteCompletion(node, ns, store, network) ==
    Returned(TRUE, <<"Workflow completed">>,
             [summary |-> GenerateSummary(ns, store, network)],
             <<DataEv(node.id, "summary")>>)

\* The node types whose data the handler of a node type looks up with
\* findPreviousData (executeCompletion through generateSummary)
LooksUp(nodeType) ==
    CASE nodeType = "compile" -> {"contractInput"}
      [] nodeType = "generateABI" -> {"compile"}
      [] nodeType = "generateBytecode" -> {"compile"}
      [] nodeType = "deploy" -> {"generateBytecode", "contractInput", "compile"}
      [] nodeType = "aiAudit" -> {"contractInput"}
      [] nodeType = "completion" ->
            {"projectCreate", "contractInput", "compile", "deploy", "aiAudit"}
      [] OTHER -> {}

\* HandlerOutcomes with a default branch that lets the node pass
HandlerOutcomesLenient(node, ns, store, network) ==
    {Returned(TRUE, <<"skipped">>, Null, <<>>)}

\* The switch of executeNode: every outcome the handler of this node can have
HandlerOutcomes(node, ns, store, network) ==
    CASE node.type = "projectCreate" -> {ExecuteProjectCreate(node)}
      [] node.type = "contractInput" -> {ExecuteContractInput(node)}
      [] node.type = "compile" ->
            {ExecuteCompile(node, ns, store, l1, l2, sv, r) :
                <<l1, l2>> \in {w \in LiveAnswers \X LiveAnswers :
                                   (w[1] = "absent") <=> (w[2] = "absent")},
                sv \in SavedAnswers, r \in CompilerResponses}
      [] node.type = "generateABI" -> {ExecuteGenerateABI(node, ns, store)}
      [] node.type = "generateBytecode" -> {ExecuteGenerateBytecode(node, ns, store)}
      [] node.type = "deploy" ->
            {ExecuteDeploy(node, ns, store, network, c, r) :
                c \in ConnectAnswers, r \in DeployResponses}
      [] node.type = "aiAudit" ->
            {ExecuteAIAudit(node, ns, store, r) : r \in AnalyzeResponses}
      [] node.type = "completion" -> {ExecuteCompletion(node, ns, store, network)}
      [] OTHER -> {Failure(<<"Unknown node type:", node.type>>, <<>>)}

\* Collaborators that give the same answer on every call
WorkingWorld ==
    [live |-> "0xA", saved |-> "0xA",
     compiler |-> [success |-> TRUE, bytecode |-> GoodBytecode,
                   metadataBytes |-> <<"0", "x", "m">>,
                   abi |-> [moduleName |-> "Foo", functions |-> <<"init">>]],
     connect |-> "ok",
     deploy |-> [success |-> TRUE, contractAddress |-> "0xabc",
                 transactionHash |-> "0xdef"],
     analyze |-> [success |-> TRUE, response |-> "looks fine"]]

RejectingWorld ==
    [WorkingWorld EXCEPT !.connect = "throws",
                         !.analyze = [success |-> FALSE, error |-> "quota exceeded"]]

OfflineWorld ==
    [WorkingWorld EXCEPT !.live = "absent", !.saved = "",
                         !.compiler = [success |-> FALSE]]

Worlds == {WorkingWorld, RejectingWorld, OfflineWorld}

\* The outcomes of a handler call in world w; with w = Null every collaborator
\* may answer anything on every call.  w.verify, when present, is the answer
\* of the second window.aptos.account() call.
HandlerOutcomesIn(w, node, ns, store, network) ==
    IF w = Null THEN HandlerOutcomes(node, ns, store, network)
    ELSE CASE node.type = "compile" ->
                {ExecuteCompile(node, ns, store, w.live,
                                IF Has(w, "verify") THEN w.verify ELSE w.live,
                                w.saved, w.compiler)}
           [] node.type = "deploy" ->
                {ExecuteDeploy(node, ns, store, network, w.connect, w.deploy)}
           [] node.type = "aiAudit" ->
                {ExecuteAIAudit(node, ns, store, w.analyze)}
           [] OTHER -> HandlerOutcomes(node, ns, store, network)

----------------------------------------------------------------------------
\* execute(), executeNode() and stop()

StoppedResult ==
    [success |-> FALSE, message |-> <<"Workflow execution stopped by user">>]

NoNodesResult ==
    [success |-> FALSE,
     message |-> <<"No nodes to execute. Please add nodes to your workflow.">>]

\* The catch of execute(): { success: false, message: error.message }
CycleResult ==
    [success |-> FALSE,
     message |-> <<"Workflow contains a cycle. Please check your connections.">>]

\* FailedAt without the label
FailedAtNoLabel(label, message) == [success |-> FALSE, message |-> message]

\* `Failed at node "${node.data.label}": ${result.message}`
FailedAt(label, message) ==
    [success |-> FALSE, message |-> <<"Failed at node", label>> \o message]

\* Object.fromEntries(this.executionData)
ObjectFromEntries(m) == [k \in Range(MapKeys(m)) |-> MapGet(m, k, Null)]

SuccessResult(ns, store, network) ==
    [success |-> TRUE, message |-> <<"Workflow executed successfully">>,
     data |-> [summary |-> GenerateSummary(ns, store, network),
               executionData |-> ObjectFromEntries(store)]]

\* DispatchEvents calling the handler before the callbacks
DispatchEventsLate(id) == <<HandlerEv(id), StatusEv(id, "running"), EdgeEv(id, "running")>>

\* DispatchEvents without the running status
DispatchEventsSilent(id) == <<EdgeEv(id, "running"), HandlerEv(id)>>

\* executeNode before the handler runs: onNodeStatus(id, 'running'),
\* updateEdgeStatus(id, 'running'), then the handler of the node's type is called
DispatchEvents(id) == <<StatusEv(id, "running"), EdgeEv(id, "running"), HandlerEv(id)>>

\* SettleEvents reporting success whatever the handler did
SettleEventsAllSuccess(id, success, message, data) ==
    <<StatusEv(id, "success"), EdgeEv(id, "success"), OutputEv(id, data)>>

\* executeNode after the handler returned, or in its catch
SettleEvents(id, success, message, data) ==
    IF success
    THEN <<StatusEv(id, "success"), EdgeEv(id, "success"), OutputEv(id, data)>>
    ELSE <<StatusEv(id, "error"), EdgeEv(id, "error"), ErrorEv(id, message)>>

\* EmptySchedule with the test left out
EmptyScheduleNever(order) == FALSE

\* if (executionOrder.length === 0)
EmptySchedule(order) == Len(order) = 0

\* RunFailed with the test left out
RunFailedNever(res) == FALSE

\* if (!result.success)
RunFailed(res) == ~res.success

\* if (!node) continue: the first index from p on whose id has a node
RECURSIVE SkipMissing(_, _, _)
SkipMissing(ns, order, p) ==
    IF p > Len(order) \/ HasNode(ns, order[p]) THEN p
    ELSE SkipMissing(ns, order, p + 1)

\* LoopFrom without the test of `stopped`
LoopFromDeaf(p, order, stp, ns, store, network, tr) ==
    LET q == SkipMissing(ns, order, p)
    IN  IF q > Len(order)
        THEN [pc |-> "done", pos |-> q, result |-> SuccessResult(ns, store, network),
              trace |-> tr]
        ELSE [pc |-> "handler", pos |-> q, result |-> Null,
              trace |-> tr \o DispatchEvents(order[q])]

\* LoopFrom testing `stopped` after the last node as well
LoopFromStrict(p, order, stp, ns, store, network, tr) ==
    LET q == SkipMissing(ns, order, p)
    IN  IF stp
        THEN [pc |-> "done", pos |-> p, result |-> StoppedResult, trace |-> tr]
        ELSE IF q > Len(order)
        THEN [pc |-> "done", pos |-> q, result |-> SuccessResult(ns, store, network),
              trace |-> tr]
        ELSE [pc |-> "handler", pos |-> q, result |-> Null,
              trace |-> tr \o DispatchEvents(order[q])]

\* LoopFrom dispatching the node before p a second time
LoopFromRetry(p, order, stp, ns, store, network, tr) ==
    LET again == /\ p > 1
                 /\ Cardinality({i \in 1..Len(tr) : tr[i] = HandlerEv(order[p - 1])}) < 2
        q == IF again THEN p - 1 ELSE SkipMissing(ns, order, p)
    IN  IF p <= Len(order) /\ stp
        THEN [pc |-> "done", pos |-> p, result |-> StoppedResult, trace |-> tr]
        ELSE IF q > Len(order)
        THEN [pc |-> "done", pos |-> q, result |-> SuccessResult(ns, store, network),
              trace |-> tr]
        ELSE [pc |-> "handler", pos |-> q, result |-> Null,
              trace |-> tr \o DispatchEvents(order[q])]

\* The for loop of execute() from iteration p up to its next await or return.
\* No await separates the iterations it skips, so `stopped` is the same in all.
LoopFrom(p, order, stp, ns, store, network, tr) ==
    LET q == SkipMissing(ns, order, p)
    IN  IF p <= Len(order) /\ stp
        THEN [pc |-> "done", pos |-> p, result |-> StoppedResult, trace |-> tr]
        ELSE IF q > Len(order)
        THEN [pc |-> "done", pos |-> q, result |-> SuccessResult(ns, store, network),
              trace |-> tr]
        ELSE [pc |-> "handler", pos |-> q, result |-> Null,
              trace |-> tr \o DispatchEvents(order[q])]

\* ClearedFlag setting the flag
RaisedFlag(flag) == TRUE

\* ClearedFlag leaving the flag as the run before left it
KeptFlag(flag) == flag

\* this.stopped = false
ClearedFlag(flag) == FALSE

\* ClearedStore leaving the entries of the run before
KeptStore(store) == store

\* this.executionData.clear()
ClearedStore(store) == <<>>

\* updateEdgeStatus: this.context.edges.map(...) builds a new array in which
\* the edges that leave or enter the node are copies carrying the status (the
\* fields of edge.data are kept flat here); the other edges are passed as they are
\* UpdatedEdges putting the status on every edge
UpdatedEdgesAll(es, id, status) ==
    [i \in 1..Len(es) |->
        [f \in DOMAIN es[i] \cup {"sourceStatus"} |->
            IF f = "sourceStatus" THEN status ELSE es[i][f]]]

UpdatedEdges(es, id, status) ==
    [i \in 1..Len(es) |->
        IF es[i].source = id
        THEN [f \in DOMAIN es[i] \cup {"sourceStatus"} |->
                 IF f = "sourceStatus" THEN status ELSE es[i][f]]
        ELSE IF es[i].target = id
        THEN [f \in DOMAIN es[i] \cup {"targetStatus"} |->
                 IF f = "targetStatus" THEN status ELSE es[i][f]]
        ELSE es[i]]

\* ContextEdges writing the annotated edges back into the context
ContextEdgesAssigned(es, updated) == updated

\* context.edges after updateEdgeStatus: the mapped array goes to onEdgeUpdate
\* only, nothing is assigned to the context or to its edge objects
ContextEdges(es, updated) == es

\* context.edges after the loop went on to `next`: a dispatch annotates the
\* edges of the dispatched node as running
EdgesAfterLoop(es, order, next) ==
    IF next.pc = "handler"
    THEN ContextEdges(es, UpdatedEdges(es, order[next.pos], "running"))
    ELSE es

\* How a finished run is remembered when execute() is called again: its
\* result, the store it left, whether stop() was called while it ran, and
\* whether stop() was called after it had finished
Remembered(res, store, tr) ==
    [result |-> res, executionData |-> store,
     stopCalled |-> \E i \in 1..Len(tr) :
                       tr[i].ev = "stop" /\ tr[i].arg \in {"handler", "delay"},
     stopAfter |-> \E i \in 1..Len(tr) : tr[i].ev = "stop" /\ tr[i].arg = "done"]

\* execute() from its call to the first await (or to its return)
ExecuteCall ==
    /\ stopped' = ClearedFlag(stopped)
    /\ pending' = Null
    /\ run' = run + 1
    /\ previous' = IF pc = "done" THEN Remembered(result, executionData, trace)
                   ELSE Null
    /\ LET built == BuildExecutionOrder(nodes, edges)
           store == ClearedStore(executionData)
           next == LoopFrom(1, built.order, ClearedFlag(stopped), nodes, store,
                            selectedNetwork, <<>>)
       IN  IF built.threw
           THEN /\ pc' = "done"
                /\ result' = CycleResult
                /\ executionOrder' = <<>>
                /\ pos' = 0
                /\ trace' = <<>>
                /\ executionData' = store
                /\ edges' = edges
           ELSE IF EmptySchedule(built.order)
           THEN /\ pc' = "done"
                /\ result' = NoNodesResult
                /\ executionOrder' = <<>>
                /\ pos' = 0
                /\ trace' = <<>>
                /\ executionData' = store
                /\ edges' = edges
           ELSE /\ pc' = next.pc
                /\ result' = next.result
                /\ executionOrder' = built.order
                /\ pos' = next.pos
                /\ trace' = next.trace
                /\ executionData' = store
                /\ edges' = EdgesAfterLoop(edges, built.order, next)
    /\ UNCHANGED <<nodes, selectedNetwork, world, reentry, outside>>

\* The first execute() call on the executor
Execute ==
    /\ pc = "idle"
    /\ ExecuteCall

\* A further execute() call, made once the run before it has resolved
ExecuteAgain ==
    /\ pc = "done"
    /\ run < MaxRuns
    /\ ExecuteCall

\* CatchEvents reporting nothing
CatchEventsSilent(id, message) == <<>>

\* The catch of executeNode: the error is reported like a returned failure
CatchEvents(id, message) == SettleEvents(id, FALSE, message, Null)

\* error.message || 'Node execution failed'
CaughtMessage(message) ==
    IF message # <<>> THEN message ELSE <<"Node execution failed">>

\* The handler of the node in flight settles: it returns a result (executeNode
\* reports it and starts the 500 ms delay) or throws (executeNode's catch
\* reports the error and returns at once, and execute() returns the failure).
HandlerSettles ==
    /\ pc = "handler"
    /\ LET node == FindNode(nodes, executionOrder[pos])
       IN  \E o \in HandlerOutcomesIn(world, node, nodes, executionData,
                                      selectedNetwork) :
              IF o.threw
              THEN /\ trace' = trace \o o.events
                                 \o <<ThrowEv(node.id, o.message)>>
                                 \o CatchEvents(node.id, o.message)
                   /\ pc' = "done"
                   /\ pending' = Null
                   /\ result' = FailedAt(node.label, CaughtMessage(o.message))
                   /\ edges' = ContextEdges(edges,
                                            UpdatedEdges(edges, node.id, "error"))
              ELSE /\ trace' = trace \o o.events
                                 \o SettleEvents(node.id, o.success, o.message, o.data)
                   /\ pc' = "delay"
                   /\ pending' = [success |-> o.success, message |-> o.message,
                                  data |-> o.data]
                   /\ result' = result
                   /\ edges' = ContextEdges(edges,
                                   UpdatedEdges(edges, node.id,
                                       IF o.success THEN "success" ELSE "error"))
    /\ UNCHANGED <<nodes, selectedNetwork, executionData, stopped,
                   executionOrder, pos, world, run, previous, reentry, outside>>

\* RecordResult leaving the store as it is
RecordResultNowhere(store, id, res) == store

\* this.executionData.set(nodeId, result.data)
RecordResult(store, id, res) == MapSet(store, id, res.data)

\* The delay of executeNode elapses: executeNode returns the result to the loop
\* of execute(), which fails the run or stores the data and goes on.
DelayElapses ==
    /\ pc = "delay"
    /\ LET node == FindNode(nodes, executionOrder[pos])
           store == RecordResult(executionData, executionOrder[pos], pending)
           next == LoopFrom(pos + 1, executionOrder, stopped, nodes, store,
                            selectedNetwork, trace)
       IN  IF RunFailed(pending)
           THEN /\ pc' = "done"
                /\ result' = FailedAt(node.label, pending.message)
                /\ UNCHANGED <<executionData, pos, trace, edges>>
           ELSE /\ executionData' = store
                /\ pc' = next.pc
                /\ pos' = next.pos
                /\ result' = next.result
                /\ trace' = next.trace
                /\ edges' = EdgesAfterLoop(edges, executionOrder, next)
    /\ pending' = Null
    /\ UNCHANGED <<nodes, selectedNetwork, stopped, executionOrder, world, run,
                   previous, reentry, outside>>

\* stop(): this.stopped = true.  The call is recorded once per run.
Stop ==
    /\ stopped' = TRUE
    /\ trace' = IF stopped THEN trace ELSE Append(trace, StopEv(pc, pos))
    /\ UNCHANGED <<nodes, edges, selectedNetwork, executionData, pc,
                   executionOrder, pos, pending, result, world, run, previous,
                   reentry, outside>>

----------------------------------------------------------------------------
\* Initial states: the context the executor is constructed with

\* The ids of the supplied nodes are distinct (the graph editor gives every
\* node its own id).  Ids are only compared for equality, so every such list
\* is covered, up to a renaming of the ids, by the lists <<1, ..., k>>.  The
\* edges range over all of NodeIds: with fewer than MaxNodes nodes they can
\* name ids of no node (dangling edges).
IdLists == {[p \in 1..k |-> p] : k \in 0..MaxNodes}

\* The type of the node supplied at position p: a compile-and-deploy pipeline
TypeRow == <<"contractInput", "compile", "deploy", "completion">>

TypeAt(p) == TypeRow[((p - 1) % Len(TypeRow)) + 1]

NodeLists == {[p \in 1..Len(ids) |-> MakeNode(ids[p], TypeAt(p))] : ids \in IdLists}

EdgeLists == SeqsUpTo([source : NodeIds, target : NodeIds], MaxEdges)

Init ==
    /\ nodes \in NodeLists
    /\ edges \in EdgeLists
    /\ selectedNetwork = Testnet
    /\ executionData = <<>>
    /\ stopped = FALSE
    /\ pc = "idle"
    /\ executionOrder = <<>>
    /\ pos = 0
    /\ pending = Null
    /\ result = Null
    /\ trace = <<>>
    /\ world = Null
    /\ run = 0
    /\ previous = Null
    /\ reentry = Null
    /\ InitOutside

Next == Execute \/ HandlerSettles \/ DelayElapses \/ Stop

Spec == Init /\ [][Next]_vars

----------------------------------------------------------------------------
\* Workflows of mixed node types

\* The kinds of node a workflow is built from: the type and the fields of
\* node.data that differ from MakeNode's
Catalogue ==
    << [type |-> "projectCreate", contractName |-> ""],
       [type |-> "contractInput", contractName |-> ""],
       [type |-> "contractInput", contractName |-> "Bar"],
       [type |-> "compile", contractName |-> ""],
       [type |-> "deploy", contractName |-> ""],
       [type |-> "aiAudit", contractName |-> ""],
       [type |-> "completion", contractName |-> ""] >>

NodeOfKind(id, k) ==
    [MakeNode(id, Catalogue[k].type) EXCEPT !.contractName = Catalogue[k].contractName]

\* The sequences of at most n different elements of S
DistinctSeqs(S, n) ==
    {q \in SeqsUpTo(S, n) : \A i, j \in 1..Len(q) : q[i] = q[j] => i = j}

\* The edges that chain the nodes in the order they are supplied
Chain(n) == [i \in 1..(n - 1) |-> [source |-> i, target |-> i + 1]]

\* Every workflow of at most MaxNodes nodes of different kinds, in every order
WorkflowNodeLists ==
    {[p \in 1..Len(ks) |-> NodeOfKind(p, ks[p])] :
        ks \in DistinctSeqs(1..Len(Catalogue), MaxNodes)}

InitWorkflows ==
    /\ nodes \in WorkflowNodeLists
    /\ edges \in {<<>>, Chain(Len(nodes))}
    /\ selectedNetwork = Testnet
    /\ executionData = <<>>
    /\ stopped = FALSE
    /\ pc = "idle"
    /\ executionOrder = <<>>
    /\ pos = 0
    /\ pending = Null
    /\ result = Null
    /\ trace = <<>>
    /\ world = Null
    /\ run = 0
    /\ previous = Null
    /\ reentry = Null
    /\ InitOutside

SpecWorkflows == InitWorkflows /\ [][Next]_vars

----------------------------------------------------------------------------
\* Repeated runs on one executor

\* The kinds of the workflows that are run repeatedly: a contract input, a
\* compile and a completion node
RerunKinds == {2, 4, 7}

RerunNodeLists ==
    {[p \in 1..Len(ks) |-> NodeOfKind(p, ks[p])] :
        ks \in DistinctSeqs(RerunKinds, Cardinality(RerunKinds))}

InitReruns ==
    /\ nodes \in RerunNodeLists
    /\ edges \in {<<>>, Chain(Len(nodes))}
    /\ selectedNetwork = Testnet
    /\ executionData = <<>>
    /\ stopped = FALSE
    /\ pc = "idle"
    /\ executionOrder = <<>>
    /\ pos = 0
    /\ pending = Null
    /\ result = Null
    /\ trace = <<>>
    /\ world \in Worlds \cup {Null}
    /\ run = 0
    /\ previous = Null
    /\ reentry = Null
    /\ InitOutside

NextReruns == Execute \/ ExecuteAgain \/ HandlerSettles \/ DelayElapses \/ Stop

SpecReruns == InitReruns /\ [][NextReruns]_vars

----------------------------------------------------------------------------
\* Compile and deploy pipelines with collaborators of every kind

\* Compiler errors of the lengths around the truncation limit
ShortError == CompileError(<<"error[E1]: bad type">>, 19)
LimitError == CompileError(<<"error[E2]: 500 characters">>, 500)
OverLimitError == CompileError(<<"error[E3]: 501 characters">>, 501)
LongError == CompileError(<<"error[E4]: 1000 characters">>, 1000)

\* Successful answers of the compile API, by the bytecode they carry
CompilerSuccesses ==
    { [success |-> TRUE, bytecode |-> b,
       abi |-> [moduleName |-> "Foo", functions |-> <<"init">>]] :
          b \in {GoodBytecode, BarePrefix, EmptyString, NonHexBytecode, OddBytecode,
                 UnprefixedBytecode, TwoDigits} }
    \cup { [success |-> TRUE, abi |-> [moduleName |-> "Foo", functions |-> <<>>]] }

\* Failing answers of the compile API, by the errors they list
CompilerFailures ==
    { [success |-> FALSE, errors |-> es] :
          es \in {<<>>, <<ShortError>>, <<LimitError>>, <<OverLimitError>>, <<LongError>>,
                  <<LongError, ShortError>>, <<ShortError, OverLimitError, LimitError>>} }
    \cup { [success |-> FALSE] }

\* The answers of the two window.aptos.account() calls: no wallet on the first
\* call means no wallet on the second
PipelineLiveAnswers == {"absent", "throws", "none", "0xA", "0xB"}

WalletAnswers ==
    {w \in PipelineLiveAnswers \X PipelineLiveAnswers :
        (w[1] = "absent") <=> (w[2] = "absent")}

\* Worlds that differ in the wallet, worlds that differ in what the compiler
\* and the chain answer
PipelineWorlds ==
    { [WorkingWorld EXCEPT !.live = w[1], !.saved = sv] @@ [verify |-> w[2]] :
          w \in WalletAnswers, sv \in SavedAnswers }
    \cup { [WorkingWorld EXCEPT !.compiler = r, !.connect = c, !.deploy = d] :
              r \in CompilerSuccesses, c \in ConnectAnswers, d \in DeployResponses }
    \cup { [WorkingWorld EXCEPT !.compiler = r] : r \in CompilerFailures }

\* The node types of the pipelines, in the order the nodes are supplied
Pipelines ==
    { <<"contractInput", "compile", "generateBytecode", "deploy">>,
      <<"contractInput", "compile", "deploy">>,
      <<"contractInput", "generateBytecode", "deploy">>,
      <<"contractInput", "deploy">>,
      <<"compile", "contractInput">> }

PipelineNodeLists ==
    {[p \in 1..Len(types) |-> MakeNode(p, types[p])] : types \in Pipelines}

InitPipelines ==
    /\ nodes \in PipelineNodeLists
    /\ edges \in {<<>>, Chain(Len(nodes))}
    /\ selectedNetwork \in {Testnet, Null}
    /\ executionData = <<>>
    /\ stopped = FALSE
    /\ pc = "idle"
    /\ executionOrder = <<>>
    /\ pos = 0
    /\ pending = Null
    /\ result = Null
    /\ trace = <<>>
    /\ world \in PipelineWorlds
    /\ run = 0
    /\ previous = Null
    /\ reentry = Null
    /\ InitOutside

SpecPipelines == InitPipelines /\ [][Next]_vars

----------------------------------------------------------------------------
\* Node arrays in which two nodes share an id

\* The id lists of at most MaxNodes ids with an id that occurs twice
DuplicateIdLists ==
    {ids \in SeqsUpTo(NodeIds, MaxNodes) :
        \E i, j \in 1..Len(ids) : i # j /\ ids[i] = ids[j]}

DuplicateNodeLists ==
    {[p \in 1..Len(ids) |-> MakeNode(ids[p], TypeAt(p))] : ids \in DuplicateIdLists}

InitDuplicates ==
    /\ nodes \in DuplicateNodeLists
    /\ edges \in EdgeLists
    /\ selectedNetwork = Testnet
    /\ executionData = <<>>
    /\ stopped = FALSE
    /\ pc = "idle"
    /\ executionOrder = <<>>
    /\ pos = 0
    /\ pending = Null
    /\ result = Null
    /\ trace = <<>>
    /\ world = Null
    /\ run = 0
    /\ previous = Null
    /\ reentry = Null
    /\ InitOutside

SpecDuplicates == InitDuplicates /\ [][Next]_vars

----------------------------------------------------------------------------
\* Vocabulary of the properties

NodeIdSet == {nodes[i].id : i \in 1..Len(nodes)}

DistinctIds == \A i, j \in 1..Len(nodes) : nodes[i].id = nodes[j].id => i = j

\* Every edge joins two nodes of the node set, and no two nodes share an id
WellFormedGraph ==
    /\ DistinctIds
    /\ \A i \in 1..Len(edges) :
          edges[i].source \in NodeIdSet /\ edges[i].target \in NodeIdSet

Successors(S) == {e.target : e \in {d \in Range(edges) : d.source \in S}}

\* The ids reachable from id n by a path of at least one edge
RECURSIVE ReachFrom(_, _)
ReachFrom(S, k) ==
    IF k = 0 THEN S ELSE ReachFrom(S \cup Successors(S), k - 1)

ReachablePlus(n) == ReachFrom(Successors({n}), MaxNodes)

\* Some node lies on a cycle of edges
HasCycle == \E n \in NodeIdSet : n \in ReachablePlus(n)

IndexIn(seq, x) == CHOOSE i \in 1..Len(seq) : seq[i] = x

Occurrences(seq, x) == Cardinality({i \in 1..Len(seq) : seq[i] = x})

\* The statuses onNodeStatus reported for a node, in order
RECURSIVE StatusesOf(_, _)
StatusesOf(tr, id) ==
    IF tr = <<>> THEN <<>>
    ELSE IF Head(tr).ev = "status" /\ Head(tr).id = id
         THEN <<Head(tr).arg>> \o StatusesOf(Tail(tr), id)
         ELSE StatusesOf(Tail(tr), id)

\* No handler, callback or collaborator was called for the node
Untouched(id) == \A i \in 1..Len(trace) : trace[i].ev = "stop" \/ trace[i].id # id

\* No handler, callback or collaborator was called at all
NoEffects == \A i \in 1..Len(trace) : trace[i].ev = "stop"

Started == pc # "idle"

----------------------------------------------------------------------------
\* C1: for a graph with distinct node ids, edges between nodes of the node set
\* and no cycle, buildExecutionOrder returns a sequence that holds every node
\* id exactly once and puts the source of every edge before its target.
C1_OrderIsTopological ==
    (Started /\ WellFormedGraph /\ ~HasCycle) =>
        /\ Len(executionOrder) = Len(nodes)
        /\ \A n \in NodeIdSet : Occurrences(executionOrder, n) = 1
        /\ \A i \in 1..Len(edges) :
              IndexIn(executionOrder, edges[i].source)
                 < IndexIn(executionOrder, edges[i].target)

\* A three-node graph whose two edges force an order other than the supplied one
C1_Witness ==
    /\ Started /\ WellFormedGraph /\ ~HasCycle
    /\ Len(nodes) = 3 /\ Len(edges) = 2
    /\ executionOrder = <<3, 2, 1>>

\* C2: when the graph contains a cycle, execute() returns a failure and no
\* handler is invoked and no callback fires, also for nodes off the cycle.
C2_CycleFailsWithoutEffects ==
    (Started /\ HasCycle) =>
        /\ pc = "done"
        /\ result.success = FALSE
        /\ NoEffects

\* C3: with an empty node set execute() returns success=false with the
\* 'no nodes to execute' message and calls no handler, callback or collaborator.
C3_EmptyGraphFails ==
    (Started /\ nodes = <<>>) =>
        /\ pc = "done"
        /\ result.success = FALSE
        /\ result.message = <<"No nodes to execute. Please add nodes to your workflow.">>
        /\ NoEffects

\* execute() has run on a context without nodes but with (dangling) edges
C3_Witness == pc = "done" /\ nodes = <<>> /\ Len(edges) = 2

NodeFailureResult ==
    /\ pc = "done"
    /\ result.success = FALSE
    /\ Head(result.message) = "Failed at node"

ErrorEvents == {i \in 1..Len(trace) : trace[i].ev = "data" /\ trace[i].arg = "error"}

OutputEvents == {i \in 1..Len(trace) : trace[i].ev = "data" /\ trace[i].arg = "output"}

\* The stop() calls made while execute() was at `at`
StopsAt(at) == {i \in 1..Len(trace) : trace[i].ev = "stop" /\ trace[i].arg = at}

Positions == 1..Len(executionOrder)

Ran(p) == StatusesOf(trace, executionOrder[p]) = <<"running", "success">>

\* C4: when a node's handler fails, execute() returns a failure at once: no
\* later node of the schedule is dispatched or changes status, the failing
\* node's final status is error, and the nodes completed earlier keep success.
C4_FailureStopsRun ==
    /\ NodeFailureResult =>
          /\ pos \in Positions
          /\ StatusesOf(trace, executionOrder[pos]) = <<"running", "error">>
          /\ \A q \in Positions :
                /\ q > pos => Untouched(executionOrder[q])
                /\ (q < pos /\ HasNode(nodes, executionOrder[q])) => Ran(q)
    /\ \A p \in Positions :
          (\E i \in ErrorEvents : trace[i].id = executionOrder[p]) =>
             /\ p = pos
             /\ pc \in {"delay", "done"}
             /\ pc = "done" => NodeFailureResult
             /\ \A q \in Positions : q > p => Untouched(executionOrder[q])

\* The second of three scheduled nodes failed
C4_Witness ==
    /\ NodeFailureResult
    /\ Len(executionOrder) = 3 /\ pos = 2
    /\ Ran(1)
    /\ StatusesOf(trace, executionOrder[2]) = <<"running", "error">>

\* C5: when the run fails because a node failed (its handler returned a
\* failure or threw), the message execute() returns is prefixed with the
\* failing node's label and carries the node's own failure message.
C5_FailureNamesNode ==
    pc = "done" =>
        \A i \in ErrorEvents :
            /\ result.success = FALSE
            /\ result.message =
                  <<"Failed at node", FindNode(nodes, trace[i].id).label>>
                     \o trace[i].val

\* The deploy handler threw (the wallet connector rejected)
C5_Witness ==
    /\ pc = "done"
    /\ \E i \in ErrorEvents :
          /\ trace[i].val = <<"User rejected the connection request">>
          /\ result.message =
                <<"Failed at node", "Deploy", "User rejected the connection request">>

\* C6: within a run the statuses reported for a node are a prefix of
\* running -> (success or error) after the initial idle.
C6_StatusSequence ==
    \A id \in NodeIds :
        StatusesOf(trace, id) \in
            {<<>>, <<"running">>, <<"running", "success">>, <<"running", "error">>}

\* One node ended in success, another in error
C6_Witness ==
    \E a, b \in NodeIds :
        /\ StatusesOf(trace, a) = <<"running", "success">>
        /\ StatusesOf(trace, b) = <<"running", "error">>

\* C7: if stop() is called after node k of the schedule has completed and
\* before node k+1 is dispatched, execute() returns the stopped-by-user
\* failure and no node from k+1 on is dispatched or leaves idle.
C7_StopBetweenNodes ==
    pc = "done" =>
        \A i \in StopsAt("delay") :
            (trace[i].id < Len(executionOrder) /\ Ran(trace[i].id)) =>
                /\ result.success = FALSE
                /\ result.message = <<"Workflow execution stopped by user">>
                /\ \A q \in Positions :
                      q > trace[i].id => Untouched(executionOrder[q])

\* stop() after the first node of a three-node schedule completed
C7_Witness ==
    /\ pc = "done"
    /\ Len(executionOrder) = 3
    /\ \E i \in StopsAt("delay") : trace[i].id = 1 /\ Ran(1)

\* C8 as stated: a stop() requested while a handler is in flight ends the run
\* in the Stopped outcome, whichever node was in flight.
C8_InFlightStopEndsStopped ==
    pc = "done" =>
        \A i \in StopsAt("handler") :
            result.message = <<"Workflow execution stopped by user">>

\* C8 amended: a stop() requested while a handler is in flight does not abort
\* the handler (it settles and its outcome is reported and, on success,
\* stored); the run then ends Failed at that node if the handler failed,
\* Stopped if it succeeded and the schedule has a later entry, and Completed
\* if it succeeded and was the last entry of the schedule.
C8_InFlightStopOutcome ==
    pc = "done" =>
        \A i \in StopsAt("handler") :
            LET k == trace[i].id
                st == StatusesOf(trace, executionOrder[k])
            IN  /\ Len(st) = 2
                /\ \E j \in (i + 1)..Len(trace) :
                      trace[j].ev = "status" /\ trace[j].id = executionOrder[k]
                /\ IF st[2] = "error"
                   THEN NodeFailureResult
                   ELSE /\ MapHas(executionData, executionOrder[k])
                        /\ IF k < Len(executionOrder)
                           THEN result = [success |-> FALSE,
                                          message |-> <<"Workflow execution stopped by user">>]
                           ELSE result.success = TRUE

\* stop() while the last of three nodes was in flight, and the run completed
C8_Witness ==
    /\ pc = "done"
    /\ Len(executionOrder) = 3
    /\ result.success = TRUE
    /\ \E i \in StopsAt("handler") : trace[i].id = 3

\* C9: nodes run one at a time in schedule order: at most one node has status
\* running, and a node is dispatched only after every node scheduled before
\* it has reached success, also when the graph has independent branches.
C9_Sequential ==
    /\ Cardinality({id \in NodeIds :
                       StatusesOf(trace, id) = <<"running">>}) <= 1
    /\ \A p, q \in Positions :
          (q < p /\ ~Untouched(executionOrder[p]) /\ HasNode(nodes, executionOrder[q]))
             => Ran(q)

\* Two branches from one root: the second branch runs after the first is done
C9_Witness ==
    /\ edges = <<[source |-> 1, target |-> 2], [source |-> 1, target |-> 3]>>
    /\ pc = "handler" /\ pos = 3
    /\ Ran(2)
    /\ StatusesOf(trace, executionOrder[3]) = <<"running">>

\* C10: when every scheduled node succeeds, execute() returns success=true
\* with the summary and a mapping whose keys are exactly the ids of all nodes
\* of the graph, each mapped to the data its handler returned in this run.
C10_SuccessCarriesAllNodes ==
    (pc = "done" /\ result.success) =>
        /\ Has(result.data, "summary")
        /\ DOMAIN result.data.executionData = NodeIdSet
        /\ \A k \in DOMAIN result.data.executionData :
              \E i \in OutputEvents :
                  trace[i].id = k /\ trace[i].val = result.data.executionData[k]

\* On graphs whose edges join nodes of the node set and whose ids are
\* distinct, a cycle fails the run without effects and a completed run
\* carries every node
WellFormedCycleFails == WellFormedGraph => C2_CycleFailsWithoutEffects

WellFormedSuccessCarriesAllNodes == WellFormedGraph => C10_SuccessCarriesAllNodes

----------------------------------------------------------------------------
\* stop() was called while the current run was in progress
StopCalledInRun == StopsAt("handler") \cup StopsAt("delay") # {}

\* C11: when execute() is called again on the same executor, with the graph
\* unchanged, collaborators that answer the same on every call and no stop()
\* during either run, the second run ends with the same success flag, message
\* and summary and leaves the same per-node outputs as the first.
C11_RerunSameOutcome ==
    (run >= 2 /\ pc = "done" /\ world # Null /\ ~StopCalledInRun) =>
        (~previous.stopCalled =>
            /\ result.success = previous.result.success
            /\ result = previous.result
            /\ executionData = previous.executionData)

\* A three-node workflow completed twice over with working collaborators
C11_Witness ==
    /\ run = 2 /\ pc = "done" /\ world = WorkingWorld /\ ~StopCalledInRun
    /\ ~previous.stopCalled
    /\ Len(nodes) = 3
    /\ result.success /\ previous.result.success
    /\ Len(executionData) = 3

\* C12: every execute() call starts with an empty store and a cleared stop
\* flag: at every moment the store holds only outputs reported in the current
\* run, and the flag is set only if stop() was called since the run began, so
\* no handler reads what an earlier run (completed, failed or stopped) left.
C12_FreshStoreAndFlag ==
    /\ \A i \in 1..Len(executionData) :
          \E j \in OutputEvents :
              /\ trace[j].id = executionData[i].key
              /\ trace[j].val = executionData[i].val
    /\ stopped => \E i \in 1..Len(trace) : trace[i].ev = "stop"

\* The first handler of a second run is in flight with an empty store, after
\* a first run that was stopped part-way and had stored two outputs
C12_Witness ==
    /\ run = 2 /\ pc = "handler" /\ pos = 1
    /\ previous.stopCalled
    /\ previous.result = StoppedResult
    /\ Len(previous.executionData) = 2
    /\ executionData = <<>>
    /\ ~stopped

----------------------------------------------------------------------------
\* The node types that have a section in the summary, and the first word of
\* the section's first line
SectionTypes == {"projectCreate", "contractInput", "compile", "deploy", "aiAudit"}

SectionHead(type) ==
    CASE type = "projectCreate" -> "Project:"
      [] type = "contractInput" -> "Contract Name:"
      [] type = "compile" -> "Compilation: Success"
      [] type = "deploy" -> "Deployment: Success"
      [] type = "aiAudit" -> "AI Analysis: Completed"

HasSection(summary, type) ==
    \E i \in 1..Len(summary) : Head(summary[i]) = SectionHead(type)

\* A node of the type was reported successful before position j of the trace
TypeSucceededBefore(type, j) ==
    \E i \in 1..(j - 1) :
        /\ trace[i].ev = "status" /\ trace[i].arg = "success"
        /\ FindNode(nodes, trace[i].id).type = type

TypeStored(type) ==
    \E i \in 1..Len(executionData) :
        FindNode(nodes, executionData[i].key).type = type

\* C13: a summary, whether the one execute() returns or the one a completion
\* node produces, has the section of a node type exactly if a node of that
\* type has executed successfully (and recorded its data) earlier in this
\* run; the section of a type that did not succeed is left out altogether.
C13_SummarySections ==
    /\ (pc = "done" /\ result.success) =>
          \A type \in SectionTypes :
              /\ HasSection(result.data.summary, type)
                    <=> TypeSucceededBefore(type, Len(trace) + 1)
              /\ HasSection(result.data.summary, type) <=> TypeStored(type)
    /\ \A j \in OutputEvents :
          FindNode(nodes, trace[j].id).type = "completion" =>
              \A type \in SectionTypes :
                  HasSection(trace[j].val.summary, type)
                     <=> TypeSucceededBefore(type, j)

\* A run of a single project-create node titled Demo: the summary has the
\* project section and no other
C13_Witness ==
    /\ Len(nodes) = 1 /\ nodes[1].type = "projectCreate"
    /\ pc = "done" /\ result.success
    /\ \E i \in 1..Len(result.data.summary) :
          result.data.summary[i] = <<"Project:", "Demo">>
    /\ \A type \in SectionTypes \ {"projectCreate"} :
          ~HasSection(result.data.summary, type)

----------------------------------------------------------------------------
\* The store entries, by position, that a node of the type wrote
EntriesOfType(type) ==
    {i \in 1..Len(executionData) :
        /\ HasNode(nodes, executionData[i].key)
        /\ FindNode(nodes, executionData[i].key).type = type}

Min(S) == CHOOSE x \in S : \A y \in S : x <= y

Max(S) == CHOOSE x \in S : \A y \in S : x >= y

\* The node whose handler is in flight
InFlight == FindNode(nodes, executionOrder[pos])

\* The outputs that nodes of the type reported in this run, by trace position
OutputsOfType(type) ==
    {i \in OutputEvents : FindNode(nodes, trace[i].id).type = type}

\* C14: when the store holds the outputs of two successfully executed nodes
\* of one type, a handler that looks that type up receives the output of the
\* one executed most recently.
C14_LatestOfTypeWins ==
    pc = "handler" =>
        \A type \in LooksUp(InFlight.type) :
            Cardinality(EntriesOfType(type)) >= 2 =>
                FindPreviousData(nodes, executionData, type)
                   = executionData[Max(EntriesOfType(type))].val

\* C15: the lookup a handler makes returns the data of the first store entry,
\* in the order the nodes executed, that a node of the requested type wrote,
\* and nothing when there is none; the edges that enter the current node
\* play no part.  A completion node's summary shows the contract name of the
\* first contract input that ran.
C15_FirstOfTypeByScan ==
    /\ pc = "handler" =>
          \A type \in LooksUp(InFlight.type) :
              FindPreviousData(nodes, executionData, type)
                 = IF EntriesOfType(type) = {} THEN Null
                   ELSE executionData[Min(EntriesOfType(type))].val
    /\ \A j \in OutputEvents :
          (/\ FindNode(nodes, trace[j].id).type = "completion"
           /\ \E i \in OutputsOfType("contractInput") : i < j) =>
              LET first == Min({i \in OutputsOfType("contractInput") : i < j})
              IN  \E l \in 1..Len(trace[j].val.summary) :
                      trace[j].val.summary[l]
                         = <<"Contract Name:", trace[first].val.contractName>>

\* Two contract inputs with different names ran before a completion node that
\* no edge enters; its summary names the first
C15_Witness ==
    /\ Len(nodes) = 3 /\ edges = <<>>
    /\ nodes[1].contractName = "Bar" /\ nodes[2].type = "contractInput"
    /\ nodes[2].contractName = ""
    /\ pc = "done" /\ result.success
    /\ \E j \in OutputsOfType("completion") :
          \E l \in 1..Len(trace[j].val.summary) :
              trace[j].val.summary[l] = <<"Contract Name:", "Bar">>

----------------------------------------------------------------------------
\* The edges, by position, that enter id x
InEdges(x) == {i \in 1..Len(edges) : edges[i].target = x}

\* x is a supplied node that no edge enters
IsRoot(x) == x \in NodeIdSet /\ InEdges(x) = {}

\* The position at which node id x was supplied
SuppliedAt(x) == CHOOSE i \in 1..Len(nodes) : nodes[i].id = x

\* When a scheduled id enters the queue: a root at the start, in supplied
\* order; any other id when the last of its predecessors to leave the queue
\* reaches, in edge order, its last edge to that id
EnqueuedAt(x) ==
    IF IsRoot(x) THEN <<0, SuppliedAt(x)>>
    ELSE LET p == Max({IndexIn(executionOrder, edges[i].source) : i \in InEdges(x)})
         IN  <<p, Max({i \in InEdges(x) : edges[i].source = executionOrder[p]})>>

Earlier(a, b) == a[1] < b[1] \/ (a[1] = b[1] /\ a[2] < b[2])

\* C16: the schedule is the order in which ids enter a first-in-first-out
\* queue: the nodes that no edge enters first, in the order they were
\* supplied, then every other id at the moment its last remaining
\* predecessor is taken from the queue.  A graph without edges is scheduled
\* in the order its nodes were supplied.
C16_QueueOrder ==
    Started =>
        /\ \A a, b \in Positions :
              a < b => Earlier(EnqueuedAt(executionOrder[a]),
                               EnqueuedAt(executionOrder[b]))
        /\ \A a \in Positions :
              ~IsRoot(executionOrder[a]) => EnqueuedAt(executionOrder[a])[1] < a
        /\ edges = <<>> => executionOrder = [i \in 1..Len(nodes) |-> nodes[i].id]

\* One root whose two successors are discovered against their supplied order
C16_Witness ==
    /\ Started
    /\ Len(nodes) = 3
    /\ edges = <<[source |-> 1, target |-> 3], [source |-> 1, target |-> 2]>>
    /\ executionOrder = <<1, 3, 2>>

----------------------------------------------------------------------------
\* Some edge names, as source or target, an id that no supplied node has
DanglingEdge ==
    \E i \in 1..Len(edges) :
        edges[i].source \notin NodeIdSet \/ edges[i].target \notin NodeIdSet

\* C17: an edge that references an id absent from the node set does not make
\* the order builder fail: the run does not end with the builder's error and
\* the schedule holds exactly the supplied nodes.
C17_DanglingEdgeAdmitted ==
    (Started /\ DanglingEdge /\ ~HasCycle) =>
        /\ ~(pc = "done" /\ result = CycleResult)
        /\ Len(executionOrder) = Len(nodes)
        /\ Range(executionOrder) = NodeIdSet

ThrowEvents == {i \in 1..Len(trace) : trace[i].ev = "throw"}

\* C18: an exception raised inside a node handler does not leave execute():
\* the node is reported error, the edges connected to it are annotated error,
\* the exception's message is written to the node's data, and execute()
\* resolves with a failure result of the shape a returned failure gives
\* (success=false and the 'Failed at node' message, no data).
C18_HandlerExceptionCaught ==
    \A i \in ThrowEvents :
        LET id == trace[i].id
            updated == UpdatedEdges(edges, id, "error")
        IN  /\ Len(trace) >= i + 3
            /\ trace[i + 1] = StatusEv(id, "error")
            /\ trace[i + 2] = EdgeEv(id, "error")
            /\ trace[i + 3] = ErrorEv(id, trace[i].val)
            /\ StatusesOf(trace, id) = <<"running", "error">>
            /\ \A k \in 1..Len(edges) :
                  /\ edges[k].source = id => updated[k].sourceStatus = "error"
                  /\ (edges[k].target = id /\ edges[k].source # id)
                        => updated[k].targetStatus = "error"
            /\ pc = "done"
            /\ DOMAIN result = {"success", "message"}
            /\ result.success = FALSE
            /\ result.message
                  = <<"Failed at node", FindNode(nodes, id).label>> \o trace[i].val

\* The wallet connector rejected in the deploy handler of a chained pipeline
C18_Witness ==
    /\ edges = <<[source |-> 1, target |-> 2], [source |-> 2, target |-> 3]>>
    /\ \E i \in ThrowEvents :
          /\ trace[i].id = 3
          /\ trace[i].val = <<"User rejected the connection request">>
          /\ trace[i - 1] = CollabEv(3, "connectWallet")
    /\ pc = "done"

HandlerCalls(id) == {i \in 1..Len(trace) : trace[i] = HandlerEv(id)}

\* C19: within one run the handler of a node is invoked at most once, and a
\* node that failed is not dispatched again: after its error status nothing
\* more is reported or called for it except the error written to its data.
C19_NoRetries ==
    \A id \in NodeIds :
        /\ Cardinality(HandlerCalls(id)) <= 1
        /\ \A i \in 1..Len(trace) :
              (trace[i] = StatusEv(id, "error")) =>
                  \A j \in (i + 1)..Len(trace) :
                      trace[j].id = id =>
                          trace[j].ev \in {"edge", "data", "stop"}
                             /\ trace[j].arg # "running"

\* The first of three scheduled nodes failed and the run ended there, its
\* handler called once
C19_Witness ==
    /\ NodeFailureResult
    /\ Len(executionOrder) = 3 /\ pos = 1
    /\ Cardinality(HandlerCalls(executionOrder[1])) = 1
    /\ StatusesOf(trace, executionOrder[1]) = <<"running", "error">>

\* C20: no step of execute() adds, removes or changes an element of the node
\* and edge collections of its context; node data, statuses and edge
\* annotations leave the executor through the callbacks only.
C20_ContextUntouched == [][nodes' = nodes /\ edges' = edges]_vars

\* Statuses, edge annotations and data were reported for a node with edges,
\* and the edges of the context carry no annotation
C20_Witness ==
    /\ Len(edges) = 2
    /\ \E id \in NodeIdSet :
          /\ \E k \in 1..Len(edges) : edges[k].source = id \/ edges[k].target = id
          /\ StatusesOf(trace, id) = <<"running", "success">>
          /\ \E i \in 1..Len(trace) : trace[i] = EdgeEv(id, "success")
          /\ \E i \in OutputEvents : trace[i].id = id
    /\ \A k \in 1..Len(edges) : DOMAIN edges[k] = {"source", "target"}

----------------------------------------------------------------------------
\* Claims about the handlers, checked on the pipelines

\* The positions of trace where a handler calls the collaborator `name`
CallsOf(name) ==
    {i \in 1..Len(trace) : trace[i].ev = "collab" /\ trace[i].arg = name}

\* A string of hex digits only, with or without the 0x prefix
HexOnly(b) == \A i \in 1..Len(b) : (StartsWith0x(b) /\ i <= 2) \/ b[i] \in HexDigits

\* C21 as stated: the chain client's deploy operation is called only with a
\* bytecode string that is longer than the bare 0x prefix and consists of hex
\* digits only.
C21_OnlyHexReachesChainClient ==
    \A i \in CallsOf("deployContract") :
        Len(trace[i].val) > 2 /\ HexOnly(trace[i].val)

\* C21, amended: the deploy handler calls the chain client's deploy operation
\* only with a bytecode string of more than two characters; the characters are
\* not checked by the handler, and a string with a character that is no hex
\* digit is rejected by the chain client itself, so that the node fails with
\* the client's message.
C21_LongStringsReachChainClient ==
    \A i \in CallsOf("deployContract") :
        /\ Len(trace[i].val) > 2
        /\ ~HexOnly(trace[i].val) =>
              \E j \in (i + 1)..Len(trace) :
                 trace[j] = ErrorEv(trace[i].id,
                                    <<"Invalid bytecode format. Expected hex string.">>)

\* The chain client has been called with a bytecode that is not hex
C21_Witness ==
    \E i \in CallsOf("deployContract") :
        /\ trace[i].val = NonHexBytecode
        /\ pc = "done"
        /\ ~result.success

\* The handler calls of nodes of the type that have settled, by trace position
SettledHandlers(type) ==
    {h \in 1..Len(trace) :
        /\ trace[h].ev = "handler"
        /\ FindNode(nodes, trace[h].id).type = type
        /\ \E j \in (h + 1)..Len(trace) :
              /\ trace[j].ev = "status" /\ trace[j].id = trace[h].id
              /\ trace[j].arg \in {"success", "error"}}

\* The collaborator calls of the handler call at trace position h
CallsBy(h) ==
    {i \in (h + 1)..Len(trace) : trace[i].ev = "collab" /\ trace[i].id = trace[h].id}

\* The non-empty bytecode values in the outputs that nodes of the type
\* reported before trace position h
BytecodesBefore(type, h) ==
    {trace[i].val.bytecode : i \in {k \in OutputsOfType(type) :
                                      /\ k < h
                                      /\ Has(trace[k].val, "bytecode")
                                      /\ trace[k].val.bytecode # <<>>}}

\* The bytecode values on offer to a deploy handler called at position h: from
\* the generate-bytecode output, and only if there is none from the compile
\* output
OfferedBytecodes(h) ==
    IF BytecodesBefore("generateBytecode", h) # {}
    THEN BytecodesBefore("generateBytecode", h)
    ELSE BytecodesBefore("compile", h)

ModuleNameKnownBefore(h) ==
    \E i \in OutputsOfType("contractInput") :
        i < h /\ trace[i].val.contractName # ""

\* C22: a deploy handler is given the bytecode of the generate-bytecode output
\* and, when there is none, that of the compile output.  When no bytecode is on
\* offer, no contract-input module name is stored or no network is selected,
\* the node fails and neither the wallet connection nor the chain client is
\* called; otherwise the handler goes on to connect the wallet, and whatever
\* bytecode it passes to the chain client is the one on offer.
C22_DeployPreconditions ==
    \A h \in SettledHandlers("deploy") :
        IF \/ OfferedBytecodes(h) = {}
           \/ ~ModuleNameKnownBefore(h)
           \/ selectedNetwork = Null
        THEN /\ CallsBy(h) = {}
             /\ \E j \in (h + 1)..Len(trace) : trace[j] = StatusEv(trace[h].id, "error")
        ELSE /\ \E i \in CallsBy(h) : trace[i].arg = "connectWallet"
             /\ \A i \in CallsBy(h) :
                   trace[i].arg = "deployContract" => trace[i].val \in OfferedBytecodes(h)

\* A deploy node that follows the compile node without a generate-bytecode node
\* has passed the compile output's bytecode to the chain client
C22_Witness ==
    /\ \A p \in 1..Len(nodes) : nodes[p].type # "generateBytecode"
    /\ \E h \in SettledHandlers("deploy") :
          /\ BytecodesBefore("compile", h) = {GoodBytecode}
          /\ \E i \in CallsBy(h) :
                trace[i].arg = "deployContract" /\ trace[i].val = GoodBytecode

\* A deploy node has failed for want of a selected network
C22_NoNetworkSeen ==
    /\ selectedNetwork = Null
    /\ \E h \in SettledHandlers("deploy") :
          OfferedBytecodes(h) # {} /\ ModuleNameKnownBefore(h)

\* The bytecode values that are neither absent, nor '', nor '0x' in the
\* compile outputs reported before trace position h
UsableBytecodesBefore(h) == BytecodesBefore("compile", h) \ {EmptyString, BarePrefix}

\* The event at trace position j reports `data` as the output of node id
IsOutput(j, id, data) ==
    /\ trace[j].ev = "data" /\ trace[j].arg = "output" /\ trace[j].id = id
    /\ trace[j].val = data

\* No handler is called after trace position h
NothingDispatchedAfter(h) == \A j \in (h + 1)..Len(trace) : trace[j].ev # "handler"

\* C23: a generate-bytecode handler succeeds exactly when a compile output
\* reported before it carries a bytecode that is neither absent, nor the empty
\* string, nor the bare 0x; its output is then that bytecode.  Otherwise the
\* node is reported in error, no later node is dispatched and the run ends as
\* failed at that node.
C23_GenerateBytecode ==
    \A h \in SettledHandlers("generateBytecode") :
        IF UsableBytecodesBefore(h) # {}
        THEN \E b \in UsableBytecodesBefore(h) :
                \E j \in (h + 1)..Len(trace) :
                    /\ IsOutput(j, trace[h].id, [bytecode |-> b])
                    /\ trace[j - 2] = StatusEv(trace[h].id, "success")
        ELSE /\ \E j \in (h + 1)..Len(trace) : trace[j] = StatusEv(trace[h].id, "error")
             /\ \A j \in (h + 1)..Len(trace) : trace[j] # StatusEv(trace[h].id, "success")
             /\ NothingDispatchedAfter(h)
             /\ pc = "done" => NodeFailureResult

\* A generate-bytecode node has failed after a compile node that succeeded
\* with the bare 0x for bytecode, and the run has ended
C23_Witness ==
    /\ pc = "done"
    /\ \E h \in SettledHandlers("generateBytecode") :
          /\ BytecodesBefore("compile", h) = {BarePrefix}
          /\ \E j \in (h + 1)..Len(trace) : trace[j] = StatusEv(trace[h].id, "error")

\* A generate-bytecode node has passed on a compile output's bytecode
C23_SuccessSeen ==
    \E h \in SettledHandlers("generateBytecode") :
        \E j \in (h + 1)..Len(trace) :
            IsOutput(j, trace[h].id, [bytecode |-> NonHexBytecode])

\* What the wallet and the cache answer in this world
FirstAnswer == world.live
SecondAnswer == IF Has(world, "verify") THEN world.verify ELSE world.live
CachedAddress == world.saved

ReportsAddress(answer) == answer \notin {"absent", "throws", "none"}

\* The cached address may stand in for the live one
CacheUsable ==
    /\ WellFormedAddress(CachedAddress)
    /\ \/ FirstAnswer = "absent"
       \/ SecondAnswer = "throws"
       \/ SecondAnswer = CachedAddress

IsError(j, id, message) ==
    /\ trace[j].ev = "data" /\ trace[j].arg = "error" /\ trace[j].id = id
    /\ trace[j].val = message

ContractInputBefore(h) == \E i \in OutputsOfType("contractInput") : i < h

\* C24: a compile handler calls the compiler service only when contract-input
\* data has been stored before it and a wallet address is resolved, and it
\* passes that address on: the address the wallet reports, or else the cached
\* address if that is well-formed and the wallet is absent, the verification
\* call raises, or the wallet confirms the cached address.  With contract data
\* but no address from either, the node fails with the wallet-not-connected
\* message and the compiler service is not called.
C24_CompilePreconditions ==
    \A h \in SettledHandlers("compile") :
        LET calls == {i \in CallsBy(h) : trace[i].arg = "compileContract"}
        IN  IF ~ContractInputBefore(h)
            THEN calls = {}
            ELSE IF ReportsAddress(FirstAnswer)
            THEN calls # {} /\ \A i \in calls : trace[i].val = <<FirstAnswer>>
            ELSE IF CacheUsable
            THEN calls # {} /\ \A i \in calls : trace[i].val = <<CachedAddress>>
            ELSE /\ calls = {}
                 /\ \E j \in (h + 1)..Len(trace) :
                       IsError(j, trace[h].id,
                               <<"Wallet not connected. Please connect your wallet before compiling.">>)

\* The compiler service has been called with the cached address after the
\* wallet gave no address and the verification call raised
C24_Witness ==
    /\ FirstAnswer = "none" /\ SecondAnswer = "throws"
    /\ \E h \in SettledHandlers("compile") :
          \E i \in CallsBy(h) :
              trace[i].arg = "compileContract" /\ trace[i].val = <<CachedAddress>>

\* A compile node has failed because the wallet reported another address than
\* the cached one
C24_StaleCacheSeen ==
    /\ FirstAnswer = "none" /\ SecondAnswer = "0xB" /\ CachedAddress = "0xA"
    /\ \E h \in SettledHandlers("compile") : CallsBy(h) # {}

\* How an error of the compiler service is to appear in the failure message
ShownAs(err) ==
    IF err.len <= 500 THEN err.text
    ELSE <<"substring(0, 500) of">> \o err.text \o <<"... (truncated)">>

BlankLine == <<"\n\n">>

\* The errors the compiler service answers with in this world
ReportedErrors ==
    IF ~world.compiler.success /\ Has(world.compiler, "errors")
    THEN world.compiler.errors ELSE <<>>

\* C25: when the compiler service answers a compile handler's call with a
\* failure that lists errors, the node's failure message consists of the
\* errors in their order, separated by blank lines, an error of more than 500
\* characters cut to its first 500 characters and followed by the truncation
\* marker, an error of at most 500 characters as it is.
C25_ErrorsTruncatedAndJoined ==
    \A h \in SettledHandlers("compile") :
        (\E i \in CallsBy(h) : trace[i].arg = "compileContract") /\ ReportedErrors # <<>>
        => LET e == ReportedErrors
               expected ==
                  CASE Len(e) = 1 -> ShownAs(e[1])
                    [] Len(e) = 2 -> ShownAs(e[1]) \o BlankLine \o ShownAs(e[2])
                    [] Len(e) = 3 -> ShownAs(e[1]) \o BlankLine \o ShownAs(e[2])
                                     \o BlankLine \o ShownAs(e[3])
           IN  \E j \in (h + 1)..Len(trace) : IsError(j, trace[h].id, expected)

\* A compile node has failed on three errors of 19, 501 and 500 characters
C25_Witness ==
    /\ ReportedErrors = <<ShortError, OverLimitError, LimitError>>
    /\ \E h \in SettledHandlers("compile") :
          \E j \in (h + 1)..Len(trace) :
              IsError(j, trace[h].id,
                      ShortError.text \o BlankLine
                      \o <<"substring(0, 500) of">> \o OverLimitError.text
                      \o <<"... (truncated)">> \o BlankLine \o LimitError.text)

\* A compile node has failed on one error of 1000 characters
C25_LongErrorSeen ==
    /\ ReportedErrors = <<LongError>>
    /\ \E h \in SettledHandlers("compile") :
          \E j \in (h + 1)..Len(trace) :
              IsError(j, trace[h].id,
                      <<"substring(0, 500) of">> \o LongError.text \o <<"... (truncated)">>)

----------------------------------------------------------------------------
\* Claims about the completion node and the order of the callbacks

\* The type of the node scheduled at position q
ScheduledType(q) == FindNode(nodes, executionOrder[q]).type

\* A node of the type is scheduled before position p
TypeScheduledBefore(type, p) == \E q \in 1..(p - 1) : ScheduledType(q) = type

\* The summaries the node reported as its output
SummariesOf(id) ==
    {trace[j].val.summary : j \in {k \in OutputEvents : trace[k].id = id}}

\* C26: a completion node succeeds wherever it stands in the schedule, and the
\* summary it reports has the section of a node type exactly if a node of that
\* type stands before it in the schedule; when the run succeeds, the summary
\* of the result has the sections of the nodes scheduled after the completion
\* node as well.
C26_CompletionSummary ==
    \A h \in SettledHandlers("completion") :
        LET id == trace[h].id
            p == IndexIn(executionOrder, id)
        IN  /\ StatusesOf(trace, id) = <<"running", "success">>
            /\ SummariesOf(id) # {}
            /\ \A summary \in SummariesOf(id) :
                  \A type \in SectionTypes :
                      HasSection(summary, type) <=> TypeScheduledBefore(type, p)
            /\ (pc = "done" /\ result.success) =>
                  \A q \in (p + 1)..Len(executionOrder) :
                      ScheduledType(q) \in SectionTypes
                         => HasSection(result.data.summary, ScheduledType(q))

\* A successful run of a completion node followed by a project-create node:
\* the node's summary has no project section, the result's summary has it
C26_Witness ==
    /\ pc = "done" /\ result.success
    /\ Len(executionOrder) >= 2
    /\ ScheduledType(1) = "completion"
    /\ ScheduledType(2) = "projectCreate"
    /\ \A summary \in SummariesOf(executionOrder[1]) :
          ~HasSection(summary, "projectCreate")
    /\ SummariesOf(executionOrder[1]) # {}
    /\ HasSection(result.data.summary, "projectCreate")

\* The trace positions where the status, or the edge annotation, is reported
\* for the node
StatusAt(id, statuses) ==
    {a \in 1..Len(trace) :
        trace[a].ev = "status" /\ trace[a].id = id /\ trace[a].arg \in statuses}

AnnotatedAt(id, status) ==
    {b \in 1..Len(trace) :
        trace[b].ev = "edge" /\ trace[b].id = id /\ trace[b].arg = status}

\* The edge array handed to onEdgeUpdate for the node carries the status on
\* every edge the node is the source of and on every edge it is the target of
AnnotatesIncidentEdges(id, status) ==
    LET updated == UpdatedEdges(edges, id, status)
    IN  \A k \in 1..Len(edges) :
           /\ edges[k].source = id =>
                 Has(updated[k], "sourceStatus") /\ updated[k].sourceStatus = status
           /\ edges[k].target = id =>
                 Has(updated[k], "targetStatus") /\ updated[k].targetStatus = status

\* C27: for every node whose handler is called, the running status and the
\* running annotation of its edges, which covers every edge it is the source
\* or the target of, are reported before the handler is called, and so before
\* any collaborator call; its success or error status is reported after the
\* handler and its collaborator calls, and before anything is reported for a
\* node dispatched later.
C27_CallbackOrder ==
    \A h \in 1..Len(trace) :
        trace[h].ev = "handler" =>
            LET id == trace[h].id
                terminal == StatusAt(id, {"success", "error"})
            IN  /\ \E a \in StatusAt(id, {"running"}) : a < h
                /\ \E b \in AnnotatedAt(id, "running") : b < h
                /\ AnnotatesIncidentEdges(id, "running")
                /\ \A i \in 1..Len(trace) :
                      (trace[i].ev = "collab" /\ trace[i].id = id) => i > h
                /\ \A t \in terminal : t > h /\ \A i \in CallsBy(h) : i < t
                /\ \A g \in (h + 1)..Len(trace) :
                      trace[g].ev = "handler" =>
                          \E t \in terminal :
                              \A a \in StatusAt(trace[g].id, {"running"}) : t < a

\* A compile node between two edges has called the compiler service and
\* succeeded, and the node after it has been dispatched
C27_Witness ==
    \E h, g \in 1..Len(trace) :
        /\ h < g
        /\ trace[h].ev = "handler" /\ trace[g].ev = "handler"
        /\ \E k, l \in 1..Len(edges) :
              /\ edges[k].target = trace[h].id /\ edges[k].source # trace[h].id
              /\ edges[l].source = trace[h].id /\ edges[l].target = trace[g].id
        /\ \E i \in CallsBy(h) : trace[i].arg = "compileContract" /\ i < g
        /\ StatusAt(trace[h].id, {"success"}) # {}

----------------------------------------------------------------------------
\* Claims about the store and the schedule

\* The ids keyed in the execution-scoped store
StoreKeys == Range(MapKeys(executionData))

\* The ids of the nodes whose handler was called before trace position a
DispatchedBefore(a) ==
    {trace[h].id : h \in {g \in 1..(a - 1) : trace[g].ev = "handler"}}

\* C28: when a node is marked running, the source of every edge into it has
\* been reported success earlier in the run, has reported its output, and is
\* keyed in the store.
C28_SourcesDoneBeforeRunning ==
    \A a \in 1..Len(trace) :
        (trace[a].ev = "status" /\ trace[a].arg = "running") =>
            \A k \in 1..Len(edges) :
                edges[k].target = trace[a].id =>
                    /\ \E t \in StatusAt(edges[k].source, {"success"}) : t < a
                    /\ \E o \in OutputEvents : trace[o].id = edges[k].source /\ o < a
                    /\ edges[k].source \in StoreKeys

\* A node with edges from two other nodes has been marked running
C28_Witness ==
    \E a \in 1..Len(trace) :
        /\ trace[a].ev = "status" /\ trace[a].arg = "running"
        /\ \E k, l \in 1..Len(edges) :
              /\ edges[k].target = trace[a].id /\ edges[l].target = trace[a].id
              /\ edges[k].source # edges[l].source

NoContractCode ==
    <<"No contract code found. Please add a Contract Input node before compilation.">>

\* The handler call at trace position h ended with the failure message
FailedWith(h, message) ==
    \E j \in (h + 1)..Len(trace) : IsError(j, trace[h].id, message)

\* C29: whether a compile handler finds the contract source depends on the
\* schedule alone, with or without edges: it fails with the
\* missing-contract-code message, and calls no collaborator, exactly when no
\* contract-input node is scheduled before it; with one scheduled before it,
\* it goes on to resolve the wallet address and ends in success or in another
\* failure.
C29_PreconditionsBySchedule ==
    \A h \in SettledHandlers("compile") :
        LET p == IndexIn(executionOrder, trace[h].id)
        IN  IF TypeScheduledBefore("contractInput", p)
            THEN ~FailedWith(h, NoContractCode)
            ELSE FailedWith(h, NoContractCode) /\ CallsBy(h) = {}

\* Without any edge, a compile node supplied after the contract-input node
\* has called the compiler service
C29_Witness ==
    /\ edges = <<>>
    /\ \E h \in SettledHandlers("compile") :
          /\ TypeScheduledBefore("contractInput", IndexIn(executionOrder, trace[h].id))
          /\ \E i \in CallsBy(h) : trace[i].arg = "compileContract"

\* Without any edge, a compile node supplied before the contract-input node
\* has failed for want of the contract code
C29_FailureSeen ==
    /\ edges = <<>>
    /\ \E p, q \in 1..Len(nodes) :
          p < q /\ nodes[p].type = "compile" /\ nodes[q].type = "contractInput"
    /\ \E h \in SettledHandlers("compile") : FailedWith(h, NoContractCode)

\* C30: every id keyed in the store is the id of a node whose last reported
\* status is success; while a node's handler is in flight the keys of the
\* store are exactly the ids of the nodes dispatched before it in this run;
\* and a node reported in error is never keyed in the store.
C30_StoreKeys ==
    /\ \A id \in StoreKeys :
          /\ HasNode(nodes, id)
          /\ StatusesOf(trace, id) # <<>>
          /\ StatusesOf(trace, id)[Len(StatusesOf(trace, id))] = "success"
    /\ pc = "handler" =>
          \E a \in StatusAt(executionOrder[pos], {"running"}) :
              StoreKeys = DispatchedBefore(a)
    /\ \A id \in {trace[t].id : t \in {u \in 1..Len(trace) :
                                          trace[u].ev = "status" /\ trace[u].arg = "error"}} :
          id \notin StoreKeys

\* The third node is in flight: the two before it are keyed in the store
C30_Witness ==
    /\ pc = "handler"
    /\ pos = 3
    /\ Cardinality(StoreKeys) = 2

\* A run has ended at a failed second node: only the first is keyed
C30_FailureSeen ==
    /\ pc = "done"
    /\ NodeFailureResult
    /\ Len(executionOrder) >= 2
    /\ StatusAt(executionOrder[2], {"error"}) # {}
    /\ StoreKeys = {executionOrder[1]}

----------------------------------------------------------------------------
\* Claims about the edge callback, node ids, stop() and node types

\* The trace positions where onEdgeUpdate is called
EdgeEvents == {b \in 1..Len(trace) : trace[b].ev = "edge"}

\* The edge array onEdgeUpdate receives at trace position b
Payload(b) == UpdatedEdges(edges, trace[b].id, trace[b].arg)

StatusFields == {"sourceStatus", "targetStatus"}

\* C31: the array every onEdgeUpdate call receives has the length and the
\* order of the context's edges; an edge that does not touch the current node
\* is the context's edge, with no status on it, and an edge that touches it
\* differs from the context's edge by the current node's status alone, so that
\* nothing reported for an earlier node is carried along.
C31_EdgePayload ==
    \A b \in EdgeEvents :
        /\ Len(Payload(b)) = Len(edges)
        /\ \A k \in 1..Len(edges) :
              LET old == edges[k]
                  new == Payload(b)[k]
              IN  /\ new.source = old.source /\ new.target = old.target
                  /\ DOMAIN old \cap StatusFields = {}
                  /\ IF old.source # trace[b].id /\ old.target # trace[b].id
                     THEN new = old
                     ELSE /\ Cardinality(DOMAIN new \cap StatusFields) = 1
                          /\ \A f \in DOMAIN new \cap StatusFields : new[f] = trace[b].arg

\* The edges of the third node are reported after the first two nodes have
\* succeeded: the edge between the first two nodes is passed on as it is
C31_Witness ==
    /\ Len(edges) = 2
    /\ \E b \in EdgeEvents :
          /\ trace[b].id = executionOrder[3]
          /\ StatusAt(executionOrder[1], {"success"}) # {}
          /\ StatusAt(executionOrder[2], {"success"}) # {}
          /\ \E k \in 1..Len(edges) :
                /\ edges[k].source = executionOrder[1]
                /\ edges[k].target = executionOrder[2]
                /\ Payload(b)[k] = edges[k]

\* C32: when two supplied nodes share an id, execute() returns the cycle error
\* whatever the edges are, and no handler, callback or collaborator is called.
C32_DuplicateIdsFail ==
    (Started /\ ~DistinctIds) =>
        /\ pc = "done"
        /\ result = CycleResult
        /\ NoEffects

\* The same for graphs whose edges all join ids of the node array
ClosedDuplicateIdsFail ==
    (Started /\ ~DistinctIds
       /\ \A k \in 1..Len(edges) :
             edges[k].source \in NodeIdSet /\ edges[k].target \in NodeIdSet) =>
        /\ pc = "done"
        /\ result = CycleResult
        /\ NoEffects

\* C33: a stop() call made before execute() is called, or after the run before
\* has finished, does not reach the run: whatever the flag was, an execute()
\* call on a graph with nodes leaves the flag cleared, records no stop, and
\* dispatches the first node of the schedule.
C33_StopOutsideRunIgnored ==
    [][(run' = run + 1 /\ nodes # <<>>) =>
          /\ ~stopped'
          /\ pc' = "handler"
          /\ pos' = 1
          /\ StatusesOf(trace', executionOrder'[1]) = <<"running">>
          /\ \A i \in 1..Len(trace') : trace'[i].ev # "stop"]_vars

\* A second run has completed although stop() was called after the first run
\* had finished
C33_Witness ==
    /\ run = 2
    /\ previous.stopAfter
    /\ ~previous.stopCalled
    /\ ~StopCalledInRun
    /\ pc = "done"
    /\ result.success
    /\ Len(executionData) = Len(nodes)

----------------------------------------------------------------------------
\* execute() called again while a run is suspended

RunNames == {"first", "second"}

\* The keys of the store entries a handler of the node type finds with
\* findPreviousData: for every type it looks up, the first entry of that type
FoundKeys(store, nodeType) ==
    {store[Min({i \in 1..Len(store) :
                   HasNode(nodes, store[i].key)
                   /\ FindNode(nodes, store[i].key).type = t})].key :
        t \in {u \in LooksUp(nodeType) :
                  \E i \in 1..Len(store) :
                      HasNode(nodes, store[i].key)
                      /\ FindNode(nodes, store[i].key).type = u}}

\* The local state of one execute() call: where it is suspended, its loop
\* index, the result its executeNode holds during the delay, what it resolved
\* with, the callbacks and calls it made, and the store as its handler read it
\* when it was called (every handler reads the store before its first await).
\* readFrom names the runs that wrote the entries the handler found.
RunState(at, index, held, res, tr, seen, readFrom) ==
    [pc |-> at, pos |-> index, pending |-> held, result |-> res, trace |-> tr,
     seen |-> seen, readFrom |-> readFrom]

\* What a run goes on to after the loop of execute() went on to `next` with
\* the store `store`, whose entries were written as `writers` tells
Dispatched(next, store, writers) ==
    RunState(next.pc, next.pos, Null, next.result, next.trace, store,
             IF next.pc = "handler"
             THEN {MapGet(writers, k, "nobody") :
                      k \in FoundKeys(store,
                                FindNode(nodes, executionOrder[next.pos]).type)}
             ELSE {})

\* A second execute() call on the executor while the first is suspended in a
\* handler or in the delay: nothing in execute() tests for a run in flight.
\* The call clears the flag and the store, builds the same schedule from the
\* same context and dispatches its first node.
ExecuteReentrant ==
    /\ pc \in {"handler", "delay"}
    /\ reentry = Null
    /\ InitOutside
    /\ LET store == ClearedStore(executionData)
           flag == ClearedFlag(stopped)
           next == LoopFrom(1, executionOrder, flag, nodes, store,
                            selectedNetwork, <<>>)
       IN  /\ reentry' = [first |-> RunState(pc, pos, pending, Null, trace,
                                             executionData, {"first"}),
                          second |-> Dispatched(next, store, <<>>),
                          writers |-> <<>>,
                          stopPending |-> stopped]
           /\ executionData' = store
           /\ stopped' = flag
    /\ pc' = "reentered"
    /\ run' = run + 1
    /\ UNCHANGED <<nodes, edges, selectedNetwork, executionOrder, pos, pending,
                   result, trace, world, previous, outside>>

\* The handler of one of the two runs settles
ReentrantSettles ==
    /\ reentry # Null
    /\ \E w \in RunNames :
          /\ reentry[w].pc = "handler"
          /\ LET r == reentry[w]
                 node == FindNode(nodes, executionOrder[r.pos])
             IN  \E o \in HandlerOutcomesIn(world, node, nodes, r.seen,
                                            selectedNetwork) :
                    reentry' =
                       [reentry EXCEPT ![w] =
                           IF o.threw
                           THEN [r EXCEPT !.pc = "done",
                                          !.trace = r.trace \o o.events
                                                    \o <<ThrowEv(node.id, o.message)>>
                                                    \o CatchEvents(node.id, o.message),
                                          !.result = FailedAt(node.label,
                                                        CaughtMessage(o.message))]
                           ELSE [r EXCEPT !.pc = "delay",
                                          !.trace = r.trace \o o.events
                                                    \o SettleEvents(node.id, o.success,
                                                                    o.message, o.data),
                                          !.pending = [success |-> o.success,
                                                       message |-> o.message,
                                                       data |-> o.data]]]
    /\ UNCHANGED <<nodes, edges, selectedNetwork, executionData, stopped, pc,
                   executionOrder, pos, pending, result, trace, world, run,
                   previous, outside>>

\* The delay of one of the two runs elapses: its loop fails the run, or writes
\* to the store the two runs share, tests the flag they share and goes on
ReentrantDelay ==
    /\ reentry # Null
    /\ \E w \in RunNames :
          /\ reentry[w].pc = "delay"
          /\ LET r == reentry[w]
                 node == FindNode(nodes, executionOrder[r.pos])
                 store == RecordResult(executionData, executionOrder[r.pos], r.pending)
                 writers == MapSet(reentry.writers, executionOrder[r.pos], w)
                 next == LoopFrom(r.pos + 1, executionOrder, stopped, nodes, store,
                                  selectedNetwork, r.trace)
             IN  IF RunFailed(r.pending)
                 THEN /\ reentry' = [reentry EXCEPT ![w] =
                                        [r EXCEPT !.pc = "done",
                                                  !.pending = Null,
                                                  !.result = FailedAt(node.label,
                                                                r.pending.message)]]
                      /\ executionData' = executionData
                 ELSE /\ reentry' = [reentry EXCEPT ![w] = Dispatched(next, store, writers),
                                                    !.writers = writers]
                      /\ executionData' = store
    /\ UNCHANGED <<nodes, edges, selectedNetwork, stopped, pc, executionOrder, pos,
                   pending, result, trace, world, run, previous, outside>>

\* Workflows with and without a node between contract input and compile
ReentrantPipelines ==
    { <<"contractInput", "compile">>,
      <<"contractInput", "aiAudit", "compile">>,
      <<"contractInput", "compile", "completion">> }

InitReentrant ==
    /\ nodes \in {[p \in 1..Len(types) |-> MakeNode(p, types[p])] :
                     types \in ReentrantPipelines}
    /\ edges = Chain(Len(nodes))
    /\ selectedNetwork = Testnet
    /\ executionData = <<>>
    /\ stopped = FALSE
    /\ pc = "idle"
    /\ executionOrder = <<>>
    /\ pos = 0
    /\ pending = Null
    /\ result = Null
    /\ trace = <<>>
    /\ world = WorkingWorld
    /\ run = 0
    /\ previous = Null
    /\ reentry = Null
    /\ InitOutside

NextReentrant ==
    \/ Execute
    \/ HandlerSettles
    \/ DelayElapses
    \/ Stop
    \/ ExecuteReentrant
    \/ ReentrantSettles
    \/ ReentrantDelay

SpecReentrant == InitReentrant /\ [][NextReentrant]_vars

----------------------------------------------------------------------------
\* Re-entrant use

\* The node of the type, in a run's own callbacks, reported the status
ReportedBy(r, type, status) ==
    \E j \in 1..Len(r.trace) :
       /\ r.trace[j].ev = "status"
       /\ r.trace[j].arg = status
       /\ HasNode(nodes, r.trace[j].id)
       /\ FindNode(nodes, r.trace[j].id).type = type

\* C34: execute() has no guard against a run in flight.  A call made while the
\* first run is suspended in a handler or in the delay is accepted: it leaves
\* the shared store empty and the shared stop flag lowered, whatever they held,
\* dispatches its own first node, and leaves the first run suspended where it
\* was, to go on later with the store and the flag of the second call.
C34_ReentrantCallClears ==
    [][(reentry = Null /\ reentry' # Null) =>
          /\ pc \in {"handler", "delay"}
          /\ executionData' = <<>>
          /\ ~stopped'
          /\ reentry'.stopPending = stopped
          /\ reentry'.first.pc = pc
          /\ reentry'.first.pos = pos
          /\ reentry'.first.seen = executionData
          /\ reentry'.second.pc = "handler"
          /\ reentry'.second.pos = 1
          /\ reentry'.second.seen = <<>>]_vars

\* The first run fails a precondition it had satisfied: its contract-input
\* node succeeded, and its compile node finds no contract code
C34_Witness ==
    /\ reentry # Null
    /\ ReportedBy(reentry.first, "contractInput", "success")
    /\ reentry.first.pc = "done"
    /\ ~reentry.first.result.success
    /\ \E j \in 1..Len(reentry.first.trace) :
          /\ reentry.first.trace[j].ev = "data"
          /\ reentry.first.trace[j].arg = "error"
          /\ reentry.first.trace[j].val = NoContractCode
          /\ FindNode(nodes, reentry.first.trace[j].id).type = "compile"

\* A handler of the first run reads an entry the second run wrote
C34_SecondRunDataRead ==
    /\ reentry # Null
    /\ reentry.first.pc = "handler"
    /\ "second" \in reentry.first.readFrom

\* stop() was called during the first run, the second call lowered the flag,
\* and the first run dispatched a later node
C34_StopLost ==
    /\ reentry # Null
    /\ reentry.stopPending
    /\ ~stopped
    /\ reentry.first.pc = "handler"
    /\ reentry.first.pos > pos

\* Without a second call, a compile node after a successful contract-input
\* node never fails for want of contract code
C34_SingleRunKeepsPrecondition ==
    reentry = Null =>
       \A h \in 1..Len(trace) :
          (trace[h].ev = "handler" /\ ContractInputBefore(h)
           /\ FindNode(nodes, trace[h].id).type = "compile")
             => ~FailedWith(h, NoContractCode)

----------------------------------------------------------------------------
\* Workflows with nodes of a type the switch of executeNode has no case for

\* The cases of the switch
KnownTypes ==
    {"projectCreate", "contractInput", "compile", "generateABI",
     "generateBytecode", "deploy", "aiAudit", "completion"}

\* Type tags that match no case: another word, and a known word in another case
UnknownTypes == {"custom", "generateAbi"}

UnknownTypeNodeLists ==
    {[p \in 1..Len(types) |-> MakeNode(p, types[p])] :
        types \in DistinctSeqs({"contractInput", "completion"} \cup UnknownTypes,
                               MaxNodes)}

InitUnknownTypes ==
    /\ nodes \in UnknownTypeNodeLists
    /\ edges \in {<<>>, Chain(Len(nodes))}
    /\ selectedNetwork = Testnet
    /\ executionData = <<>>
    /\ stopped = FALSE
    /\ pc = "idle"
    /\ executionOrder = <<>>
    /\ pos = 0
    /\ pending = Null
    /\ result = Null
    /\ trace = <<>>
    /\ world = Null
    /\ run = 0
    /\ previous = Null
    /\ reentry = Null
    /\ InitOutside

SpecUnknownTypes == InitUnknownTypes /\ [][Next]_vars

UnknownNodeType(type) == <<"Unknown node type:", type>>

\* C35: a scheduled node whose type is none of the eight known types is
\* dispatched like any other (status running), no collaborator is called for
\* it, and it fails with the unknown-node-type message naming its type: its
\* statuses are running then error, nothing is stored for it, no later node is
\* dispatched and execute() returns the failure at that node.
C35_UnknownTypeFails ==
    \A p \in Positions :
       LET id == executionOrder[p] IN
       (HasNode(nodes, id) /\ FindNode(nodes, id).type \notin KnownTypes
        /\ ~Untouched(id)) =>
          /\ p = pos
          /\ \A j \in 1..Len(trace) : trace[j].ev = "collab" => trace[j].id # id
          /\ \A q \in Positions : q > p => Untouched(executionOrder[q])
          /\ \A i \in 1..Len(executionData) : executionData[i].key # id
          /\ pc \in {"handler", "delay", "done"}
          /\ pc = "handler" => StatusesOf(trace, id) = <<"running">>
          /\ pc # "handler" =>
                /\ StatusesOf(trace, id) = <<"running", "error">>
                /\ \E j \in 1..Len(trace) :
                      IsError(j, id, UnknownNodeType(FindNode(nodes, id).type))
          /\ pc = "delay" =>
                /\ ~pending.success
                /\ pending.message = UnknownNodeType(FindNode(nodes, id).type)
          /\ pc = "done" =>
                result = FailedAt(FindNode(nodes, id).label,
                                  UnknownNodeType(FindNode(nodes, id).type))

\* A node of unknown type, scheduled second of three, failed the run
C35_Witness ==
    /\ pc = "done"
    /\ Len(executionOrder) = 3 /\ pos = 2
    /\ FindNode(nodes, executionOrder[2]).type = "generateAbi"
    /\ StatusesOf(trace, executionOrder[1]) = <<"running", "success">>
    /\ StatusesOf(trace, executionOrder[2]) = <<"running", "error">>
    /\ ~result.success

----------------------------------------------------------------------------
\* The workflow generators

\* Bound of the generator: Date.now() returns a reading in 0..MaxClock
MaxClock == 1

\* IdOf without the prefix: the reading alone
IdOfReading(prefix, now) == [prefix |-> "node", now |-> now]

\* `${prefix}-${Date.now()}`: equal exactly when prefix and reading are equal
\* (a prefix is a word of letters, a reading a numeral)
IdOf(prefix, now) == [prefix |-> prefix, now |-> now]

\* sourceCode.match(/module\s+\w+::(\w+)/): the module name, or 'MyModule'
TemplateContractName(code) ==
    IF code.address # "" THEN code.name ELSE "MyModule"

\* A code without a module declaration
PlainCode ==
    [text |-> "text", mentions |-> FALSE, address |-> "", name |-> "",
     brace |-> FALSE]

\* Contract templates, by their code
Templates == {[code |-> ValidCode], [code |-> PlainCode]}

\* A generated node: the fields of node.data the executor reads.  The project
\* title `${template.name} Project` is never empty.
TemplateNode(prefix, now, type, template) ==
    [MakeNode(IdOf(prefix, now), type) EXCEPT
        !.contractCode = IF type = "contractInput" THEN template.code ELSE @,
        !.contractName = IF type = "contractInput"
                         THEN TemplateContractName(template.code) ELSE @]

EdgeBetween(a, b) == [source |-> a.id, target |-> b.id]

\* generateWorkflowFromTemplate; clock[k] is the k-th reading of Date.now()
GenerateWorkflowFromTemplate(template, clock) ==
    LET projectNode == TemplateNode("project", clock[1], "projectCreate", template)
        contractNode == TemplateNode("contract", clock[2], "contractInput", template)
        compileNode == TemplateNode("compile", clock[3], "compile", template)
        abiNode == TemplateNode("abi", clock[4], "generateABI", template)
        bytecodeNode == TemplateNode("bytecode", clock[5], "generateBytecode", template)
        deployNode == TemplateNode("deploy", clock[6], "deploy", template)
        completionNode == TemplateNode("completion", clock[7], "completion", template)
    IN  [nodes |-> <<projectNode, contractNode, compileNode, abiNode, bytecodeNode,
                     deployNode, completionNode>>,
         edges |-> <<EdgeBetween(projectNode, contractNode),
                     EdgeBetween(contractNode, compileNode),
                     EdgeBetween(compileNode, abiNode),
                     EdgeBetween(compileNode, bytecodeNode),
                     EdgeBetween(abiNode, deployNode),
                     EdgeBetween(bytecodeNode, deployNode),
                     EdgeBetween(deployNode, completionNode)>>]

\* nodes.find((n) => n.data.type === type): the first such node, or Null
FindByType(ns, type) ==
    IF \E i \in 1..Len(ns) : ns[i].type = type
    THEN ns[Min({i \in 1..Len(ns) : ns[i].type = type})]
    ELSE Null

\* generateWorkflowWithAI: the node is pushed after the others, with one edge,
\* from the contract-input node to it
GenerateWorkflowWithAI(template, clock) ==
    LET base == GenerateWorkflowFromTemplate(template, clock)
        contractNode == FindByType(base.nodes, "contractInput")
        compileNode == FindByType(base.nodes, "compile")
        aiNode == TemplateNode("ai", clock[8], "aiAudit", template)
    IN  IF contractNode # Null /\ compileNode # Null
        THEN [nodes |-> Append(base.nodes, aiNode),
              edges |-> Append(base.edges, EdgeBetween(contractNode, aiNode))]
        ELSE base

\* The readings of a clock that never runs backwards
Clocks ==
    {c \in [1..8 -> 0..MaxClock] : \A k \in 1..7 : c[k] <= c[k + 1]}

\* A generator is called with a template, and the executor is constructed
\* with the workflow it returns
GenerateWorkflow ==
    /\ generator # Null
    /\ generator.pc = "ready"
    /\ pc = "idle"
    /\ LET made == IF generator.withAI
                   THEN GenerateWorkflowWithAI(generator.template, generator.clock)
                   ELSE GenerateWorkflowFromTemplate(generator.template,
                                                     generator.clock)
       IN  /\ nodes' = made.nodes
           /\ edges' = made.edges
    /\ generator' = [generator EXCEPT !.pc = "done"]
    /\ UNCHANGED <<selectedNetwork, executionData, stopped, pc, executionOrder, pos,
                   pending, result, trace, world, run, previous, reentry, batch,
                   request, wallet>>

\* execute() on the generated workflow
ExecuteGenerated ==
    /\ generator # Null
    /\ generator.pc = "done"
    /\ Execute

InitGenerated ==
    /\ generator \in [pc : {"ready"}, withAI : BOOLEAN, template : Templates,
                       clock : Clocks]
    /\ nodes = <<>>
    /\ edges = <<>>
    /\ selectedNetwork = Testnet
    /\ executionData = <<>>
    /\ stopped = FALSE
    /\ pc = "idle"
    /\ executionOrder = <<>>
    /\ pos = 0
    /\ pending = Null
    /\ result = Null
    /\ trace = <<>>
    /\ world = WorkingWorld
    /\ run = 0
    /\ previous = Null
    /\ reentry = Null
    /\ batch = Null
    /\ request = Null
    /\ wallet = Null

NextGenerated ==
    \/ GenerateWorkflow
    \/ ExecuteGenerated
    \/ HandlerSettles
    \/ DelayElapses
    \/ Stop

SpecGenerated == InitGenerated /\ [][NextGenerated]_vars

\* The types of the nodes of a schedule
TypesOf(order) == [p \in 1..Len(order) |-> FindNode(nodes, order[p]).type]

NodeIdsOf(ns) == {ns[i].id : i \in 1..Len(ns)}

TemplateSchedule ==
    <<"projectCreate", "contractInput", "compile", "generateABI",
      "generateBytecode", "deploy", "completion">>

Generated(withAI) ==
    generator # Null /\ generator.pc = "done" /\ generator.withAI = withAI

\* C36: the workflow generateWorkflowFromTemplate returns has 7 nodes with
\* pairwise distinct ids and 7 edges that join generated nodes; it is acyclic,
\* and the schedule execute() builds from it is project-create,
\* contract-input, compile, generate-abi, generate-bytecode, deploy,
\* completion, so that deploy comes after both generate-abi and
\* generate-bytecode, whatever the clock reads.
C36_TemplateWorkflow ==
    Generated(FALSE) =>
       /\ Len(nodes) = 7
       /\ Cardinality(NodeIdsOf(nodes)) = 7
       /\ Len(edges) = 7
       /\ \A i \in 1..Len(edges) :
             edges[i].source \in NodeIdsOf(nodes) /\ edges[i].target \in NodeIdsOf(nodes)
       /\ ~BuildExecutionOrder(nodes, edges).threw
       /\ TypesOf(BuildExecutionOrder(nodes, edges).order) = TemplateSchedule
       /\ pc # "idle" =>
             /\ TypesOf(executionOrder) = TemplateSchedule
             /\ \A j \in 1..Len(trace) :
                   (trace[j].ev = "handler"
                    /\ FindNode(nodes, trace[j].id).type = "deploy") =>
                      \A type \in {"generateABI", "generateBytecode"} :
                         \E i \in 1..(j - 1) :
                            /\ trace[i].ev = "status" /\ trace[i].arg = "success"
                            /\ FindNode(nodes, trace[i].id).type = type

\* The deploy node of a workflow generated while the clock stood still was
\* dispatched
C36_Witness ==
    /\ Generated(FALSE)
    /\ \A k \in 1..8 : generator.clock[k] = 0
    /\ pc = "handler"
    /\ FindNode(nodes, executionOrder[pos]).type = "deploy"

\* The positions of the nodes of the type in the schedule
ScheduledAt(type) ==
    {p \in 1..Len(executionOrder) : FindNode(nodes, executionOrder[p]).type = type}

\* C37: in the workflow generateWorkflowWithAI returns, the AI audit node is
\* scheduled after the contract-input node and before the compile node.
C37_AuditBeforeCompile ==
    (Generated(TRUE) /\ pc # "idle") =>
       \A a \in ScheduledAt("aiAudit") :
          /\ \A c \in ScheduledAt("contractInput") : c < a
          /\ \A c \in ScheduledAt("compile") : a < c

\* What the generated workflow does: the AI audit node has one edge, from the
\* contract-input node, pushed after the edge to the compile node, so it is
\* scheduled right after the compile node
C37_AuditAfterCompile ==
    (Generated(TRUE) /\ pc # "idle") =>
       TypesOf(executionOrder) =
          <<"projectCreate", "contractInput", "compile", "aiAudit", "generateABI",
            "generateBytecode", "deploy", "completion">>

\* The compile node of a workflow with AI audit ran before the audit
C37_CompiledUnaudited ==
    /\ Generated(TRUE)
    /\ pc = "handler"
    /\ FindNode(nodes, executionOrder[pos]).type = "aiAudit"
    /\ \E j \in 1..Len(trace) :
          /\ trace[j].ev = "status" /\ trace[j].arg = "success"
          /\ FindNode(nodes, trace[j].id).type = "compile"

----------------------------------------------------------------------------
\* batchCompileContracts

\* Bound of the batch: the number of contracts passed in one call
MaxBatch == 3

ModuleNames == {"Foo", "Bar", "Baz"}

\* The contracts of a batch: a source that passes validateMoveCode or one that
\* does not, under a module name
BatchContracts == [sourceCode : {ValidCode, PlainCode}, moduleName : ModuleNames]

\* The JSON bodies the compile API answers a batch with: a success, a failure,
\* and a body without a success field
BatchResponses ==
    { [success |-> TRUE, bytecode |-> GoodBytecode],
      [success |-> FALSE, errors |-> <<CompileError(<<"error[E1]: bad type">>, 19)>>],
      [bytecode |-> GoodBytecode] }

\* ResultFailed with the test left out
ResultFailedNever(res) == FALSE

\* if (!result.success)
ResultFailed(res) == ~(Has(res, "success") /\ res.success)

\* batchCompileContracts is called: the result map is created and the loop
\* awaits compileContract for the first contract, or returns at once
BatchCall ==
    /\ batch # Null
    /\ batch.pc = "ready"
    /\ batch' = IF batch.contracts = <<>>
                THEN [batch EXCEPT !.pc = "done"]
                ELSE [batch EXCEPT !.pc = "awaiting", !.index = 1, !.sent = <<1>>]
    /\ UNCHANGED <<nodes, edges, selectedNetwork, executionData, stopped, pc,
                   executionOrder, pos, pending, result, trace, world, run,
                   previous, reentry, generator, request, wallet>>

\* compileContract resolves for the contract at the loop index: the result is
\* stored under the module name, and the loop breaks, goes on, or ends
BatchResolves ==
    /\ batch # Null
    /\ batch.pc = "awaiting"
    /\ \E response \in BatchResponses :
          LET contract == batch.contracts[batch.index]
              res == CompileContract(contract.sourceCode, contract.moduleName,
                                     batch.walletAddress, response)
              results == MapSet(batch.results, contract.moduleName, res)
              got == Append(batch.got, res)
          IN  batch' =
                 IF ResultFailed(res) \/ batch.index = Len(batch.contracts)
                 THEN [batch EXCEPT !.pc = "done", !.results = results, !.got = got]
                 ELSE [batch EXCEPT !.index = batch.index + 1,
                                    !.sent = Append(batch.sent, batch.index + 1),
                                    !.results = results, !.got = got]
    /\ UNCHANGED <<nodes, edges, selectedNetwork, executionData, stopped, pc,
                   executionOrder, pos, pending, result, trace, world, run,
                   previous, reentry, generator, request, wallet>>

\* contracts and walletAddress are the arguments; results is the Map; sent
\* lists the positions of the contracts compileContract was called for and got
\* the results it resolved with, in call order
InitBatch ==
    /\ batch \in [pc : {"ready"}, contracts : SeqsUpTo(BatchContracts, MaxBatch),
                   walletAddress : {"0xA", ""}, index : {0}, results : {<<>>},
                   sent : {<<>>}, got : {<<>>}]
    /\ nodes = <<>>
    /\ edges = <<>>
    /\ selectedNetwork = Testnet
    /\ executionData = <<>>
    /\ stopped = FALSE
    /\ pc = "idle"
    /\ executionOrder = <<>>
    /\ pos = 0
    /\ pending = Null
    /\ result = Null
    /\ trace = <<>>
    /\ world = Null
    /\ run = 0
    /\ previous = Null
    /\ reentry = Null
    /\ generator = Null
    /\ request = Null
    /\ wallet = Null

NextBatch == BatchCall \/ BatchResolves

SpecBatch == InitBatch /\ [][NextBatch]_vars

\* The module name of the contract at a position of the batch
NameAt(i) == batch.contracts[i].moduleName

\* The result at a position of got has success: true
Succeeded(i) == Has(batch.got[i], "success") /\ batch.got[i].success = TRUE

DistinctNames ==
    \A i, j \in 1..Len(batch.contracts) : NameAt(i) = NameAt(j) => i = j

\* C38 as stated: when the batch has returned, the result map has an entry for
\* every contract up to and including the first failing one, and no entry for
\* any later contract.
C38_EntryPerContract ==
    batch.pc = "done" =>
       \A i \in 1..Len(batch.contracts) :
          MapHas(batch.results, NameAt(i)) <=> i <= Len(batch.got)

\* C38: the contracts are compiled one at a time in the given order, and the
\* batch stops at the first result without success: true.  compileContract is
\* called for the contracts up to and including the first failing one, and
\* for no later one.  The result map is keyed by module name: its keys are the
\* names of the contracts compiled, each with the result of the last compiled
\* contract of that name, and when the names of the batch are distinct that
\* is one entry per compiled contract and none for a later one.
C38_BatchStopsAtFirstFailure ==
    LET k == Len(batch.got) IN
    /\ batch.sent \in {[i \in 1..k |-> i], [i \in 1..(k + 1) |-> i]}
    /\ Len(batch.sent) = k + 1 <=> batch.pc = "awaiting"
    /\ Len(batch.sent) <= Len(batch.contracts)
    /\ \A i \in 1..k : ~Succeeded(i) => (i = k /\ batch.pc = "done")
    /\ (batch.pc = "done" /\ k < Len(batch.contracts) /\ k > 0) => ~Succeeded(k)
    /\ Range(MapKeys(batch.results)) = {NameAt(i) : i \in 1..k}
    /\ \A i \in 1..k :
          MapGet(batch.results, NameAt(i), Null) =
             batch.got[Max({j \in 1..k : NameAt(j) = NameAt(i)})]
    /\ DistinctNames =>
          /\ Len(batch.results) = k
          /\ \A i \in 1..Len(batch.contracts) :
                MapHas(batch.results, NameAt(i)) <=> i <= k

\* The second of three contracts with different names failed: two entries,
\* and the third contract was never sent
C38_Witness ==
    /\ batch.pc = "done"
    /\ Len(batch.contracts) = 3 /\ DistinctNames
    /\ batch.sent = <<1, 2>>
    /\ Succeeded(1) /\ ~Succeeded(2)
    /\ Len(batch.results) = 2
    /\ ~MapHas(batch.results, NameAt(3))

\* The first of two contracts of one name failed: the later contract was not
\* compiled, and the map has an entry under its name
C38_LaterNameHasEntry ==
    /\ batch.pc = "done"
    /\ Len(batch.contracts) = 2 /\ NameAt(1) = NameAt(2)
    /\ batch.sent = <<1>>
    /\ MapHas(batch.results, NameAt(2))

----------------------------------------------------------------------------
\* POST /api/compile

\* A code whose module declaration names another address
ForeignCode ==
    [text |-> "text", mentions |-> TRUE, address |-> "Other", name |-> "Foo",
     brace |-> TRUE]

\* A code whose module declaration is not followed by a brace
OpenCode ==
    [text |-> "text", mentions |-> TRUE, address |-> "Deployer", name |-> "Foo",
     brace |-> FALSE]

\* The empty string as source code
EmptyCode ==
    [text |-> "empty", mentions |-> FALSE, address |-> "", name |-> "",
     brace |-> FALSE]

\* The bodies of the requests: Null is a body request.json() rejects
RequestBodies ==
    [sourceCode : {ValidCode, PlainCode, ForeignCode, OpenCode, EmptyCode},
     moduleName : {"Foo", "Bar", ""},
     walletAddress : {"0xA", "0xB", "junk", ""}] \cup {Null}

\* The checks of the body, in order: the kind of the response that rejects
\* it, or "accepted"
ValidateRequest(body) ==
    IF FalsyCode(body.sourceCode) \/ body.moduleName = "" \/ body.walletAddress = ""
    THEN "missingFields"
    ELSE IF ~WellFormedAddress(body.walletAddress) THEN "badAddress"
    ELSE IF ~body.sourceCode.mentions THEN "noModule"
    ELSE IF body.sourceCode.address = "" \/ ~body.sourceCode.brace THEN "badDeclaration"
    ELSE IF body.sourceCode.address # "Deployer" THEN "notDeployer"
    ELSE IF body.sourceCode.name # body.moduleName THEN "nameMismatch"
    ELSE "accepted"

\* The status of the response of a kind
StatusOf(kind) ==
    CASE kind \in {"missingFields", "badAddress"} -> 400
      [] kind \in {"cliMissing", "exception"} -> 500
      [] OTHER -> 200

\* NeedsCleanup with the test failing always
NeedsCleanupNever(tempDir) == FALSE

\* if (tempDir)
NeedsCleanup(tempDir) == tempDir # Null

\* A return statement of the handler: the response is built, and the finally
\* block awaits fs.rm when tempDir is set, or is left at once
Respond(r, kind) ==
    [r EXCEPT !.response = [kind |-> kind, status |-> StatusOf(kind),
                            success |-> kind = "success"],
              !.pc = IF NeedsCleanup(r.tempDir) THEN "finally" ELSE "done"]

\* request.json() settles and the body is checked
PostReceives ==
    /\ request # Null
    /\ request.pc = "json"
    /\ request' =
          IF request.body = Null THEN Respond(request, "exception")
          ELSE IF ValidateRequest(request.body) # "accepted"
          THEN Respond(request, ValidateRequest(request.body))
          ELSE [request EXCEPT !.pc = "mkdtemp"]
    /\ UNCHANGED <<nodes, edges, selectedNetwork, executionData, stopped, pc,
                   executionOrder, pos, pending, result, trace, world, run,
                   previous, reentry, generator, batch, wallet>>

\* fs.mkdtemp settles: the directory is made and tempDir is assigned, or the
\* call rejects with tempDir still null
MkdtempSettles ==
    /\ request # Null
    /\ request.pc = "mkdtemp"
    /\ \/ request' = [request EXCEPT !.pc = "write",
                                      !.tempDir = [path |-> "aptos-compile-1"],
                                      !.exists = TRUE]
       \/ request' = Respond(request, "exception")
    /\ UNCHANGED <<nodes, edges, selectedNetwork, executionData, stopped, pc,
                   executionOrder, pos, pending, result, trace, world, run,
                   previous, reentry, generator, batch, wallet>>

\* Move.toml, the sources directory and the source file are written, or one
\* of the three calls rejects
WriteSettles ==
    /\ request # Null
    /\ request.pc = "write"
    /\ \/ request' = [request EXCEPT !.pc = "version"]
       \/ request' = Respond(request, "exception")
    /\ UNCHANGED <<nodes, edges, selectedNetwork, executionData, stopped, pc,
                   executionOrder, pos, pending, result, trace, world, run,
                   previous, reentry, generator, batch, wallet>>

\* `aptos --version` settles
VersionSettles ==
    /\ request # Null
    /\ request.pc = "version"
    /\ \/ request' = [request EXCEPT !.pc = "compile"]
       \/ request' = Respond(request, "cliMissing")
    /\ UNCHANGED <<nodes, edges, selectedNetwork, executionData, stopped, pc,
                   executionOrder, pos, pending, result, trace, world, run,
                   previous, reentry, generator, batch, wallet>>

\* `aptos move compile` settles: it succeeds, or it fails with a timeout, a
\* git error or a compilation error, or the inner catch itself throws
CompileSettles ==
    /\ request # Null
    /\ request.pc = "compile"
    /\ \/ request' = [request EXCEPT !.pc = "readdir"]
       \/ \E kind \in {"timeout", "gitError", "compileError", "exception"} :
             request' = Respond(request, kind)
    /\ UNCHANGED <<nodes, edges, selectedNetwork, executionData, stopped, pc,
                   executionOrder, pos, pending, result, trace, world, run,
                   previous, reentry, generator, batch, wallet>>

\* fs.readdir of the build directory settles
ReaddirSettles ==
    /\ request # Null
    /\ request.pc = "readdir"
    /\ \/ request' = [request EXCEPT !.pc = "readFile"]
       \/ request' = Respond(request, "noBytecode")
       \/ request' = Respond(request, "exception")
    /\ UNCHANGED <<nodes, edges, selectedNetwork, executionData, stopped, pc,
                   executionOrder, pos, pending, result, trace, world, run,
                   previous, reentry, generator, batch, wallet>>

\* fs.readFile of the bytecode settles
ReadFileSettles ==
    /\ request # Null
    /\ request.pc = "readFile"
    /\ \/ request' = [request EXCEPT !.pc = "metadata"]
       \/ request' = Respond(request, "exception")
    /\ UNCHANGED <<nodes, edges, selectedNetwork, executionData, stopped, pc,
                   executionOrder, pos, pending, result, trace, world, run,
                   previous, reentry, generator, batch, wallet>>

\* The package metadata is read, or is not found; errors are swallowed
MetadataSettles ==
    /\ request # Null
    /\ request.pc = "metadata"
    /\ \E found \in BOOLEAN :
          request' = [Respond(request, "success") EXCEPT !.metadata = found]
    /\ UNCHANGED <<nodes, edges, selectedNetwork, executionData, stopped, pc,
                   executionOrder, pos, pending, result, trace, world, run,
                   previous, reentry, generator, batch, wallet>>

\* The fs.rm of the finally block settles: the directory is removed, or the
\* call rejects and the error is logged
RemoveSettles ==
    /\ request # Null
    /\ request.pc = "finally"
    /\ \E removed \in BOOLEAN :
          request' = [request EXCEPT !.pc = "done",
                                     !.removals = request.removals + 1,
                                     !.exists = ~removed]
    /\ UNCHANGED <<nodes, edges, selectedNetwork, executionData, stopped, pc,
                   executionOrder, pos, pending, result, trace, world, run,
                   previous, reentry, generator, batch, wallet>>

InitRequests ==
    /\ request \in [pc : {"json"}, body : RequestBodies, tempDir : {Null},
                     exists : {FALSE}, removals : {0}, response : {Null},
                     metadata : {FALSE}]
    /\ nodes = <<>>
    /\ edges = <<>>
    /\ selectedNetwork = Testnet
    /\ executionData = <<>>
    /\ stopped = FALSE
    /\ pc = "idle"
    /\ executionOrder = <<>>
    /\ pos = 0
    /\ pending = Null
    /\ result = Null
    /\ trace = <<>>
    /\ world = Null
    /\ run = 0
    /\ previous = Null
    /\ reentry = Null
    /\ generator = Null
    /\ batch = Null
    /\ wallet = Null

NextRequests ==
    \/ PostReceives
    \/ MkdtempSettles
    \/ WriteSettles
    \/ VersionSettles
    \/ CompileSettles
    \/ ReaddirSettles
    \/ ReadFileSettles
    \/ MetadataSettles
    \/ RemoveSettles

SpecRequests == InitRequests /\ [][NextRequests]_vars

\* The responses that reject the body
ValidationKinds ==
    {"missingFields", "badAddress", "noModule", "badDeclaration", "notDeployer",
     "nameMismatch"}

\* The handler has completed with a response of the kind
CompletedWith(kind) ==
    request.pc = "done" /\ request.response.kind = kind

\* C39: a request for which the temporary directory was created has its
\* removal attempted, once, before the handler completes, whatever the exit:
\* compiler CLI missing, compilation error, timeout or git error, no bytecode
\* files, success, or an exception.  No removal is attempted before the
\* response is built.  A request rejected by the validation of its body, and
\* one that fails before mkdtemp resolves, has no directory and no removal.
C39_TempDirRemoved ==
    /\ request.exists => request.tempDir # Null
    /\ (request.tempDir # Null) <=>
          (request.pc \in {"write", "version", "compile", "readdir", "readFile",
                           "metadata", "finally"}
           \/ (request.pc = "done" /\ request.removals = 1))
    /\ request.pc = "done" =>
          /\ request.response # Null
          /\ request.removals = (IF request.tempDir # Null THEN 1 ELSE 0)
          /\ request.response.kind \in
                {"cliMissing", "timeout", "gitError", "compileError", "noBytecode",
                 "success"} => request.tempDir # Null
          /\ request.response.kind \in ValidationKinds =>
                request.tempDir = Null /\ ~request.exists
    /\ request.pc # "done" => request.removals = 0
    /\ request.pc = "finally" => request.response # Null
    /\ (request.body # Null /\ ValidateRequest(request.body) # "accepted") =>
          /\ request.tempDir = Null /\ ~request.exists
          /\ request.pc \in {"json", "done"}

\* A compilation that timed out: the removal was attempted and failed
C39_Witness ==
    /\ CompletedWith("timeout")
    /\ request.tempDir # Null
    /\ request.removals = 1
    /\ request.exists

\* The other exits with a directory, and a rejected request
C39_ExitsSeen(kind) ==
    CompletedWith(kind) /\ request.removals = (IF kind \in ValidationKinds THEN 0 ELSE 1)

C39_CliMissingSeen == C39_ExitsSeen("cliMissing")
C39_CompileErrorSeen == C39_ExitsSeen("compileError")
C39_NoBytecodeSeen == C39_ExitsSeen("noBytecode")
C39_SuccessSeen == C39_ExitsSeen("success")
C39_ExceptionSeen == C39_ExitsSeen("exception") /\ request.tempDir # Null
C39_RejectedSeen == C39_ExitsSeen("nameMismatch")

----------------------------------------------------------------------------
\* The wallet service: connectWallet, disconnectWallet and the cached address

\* Account addresses the wallet reports
Addresses == {"0xA", "0xB"}

\* localStorage.getItem('walletAddress'): "" when there is no entry
NoEntry == ""

\* RemoveItem leaving the entry
RemoveItemKept(cache) == cache

\* localStorage.removeItem('walletAddress')
RemoveItem(cache) == NoEntry

\* localStorage.setItem('walletAddress', address)
SetItem(cache, address) == address

\* window.aptos.connect(): a result, no result, or a rejection with code
\* 4001, with a message that includes 'rejected' or 'timeout', or another
ConnectOutcomes == {"ok", "none", "code4001", "rejected", "timeout", "other"}

\* window.aptos.account(): an account with an address, null or an account
\* without address, or a rejection
AccountOutcomes == Addresses \cup {"none", "throws"}

\* The message connectWallet throws for what went wrong
ConnectError(outcome) ==
    CASE outcome = "code4001" -> "User rejected the connection request"
      [] outcome = "rejected" -> "Connection was rejected. Please try again."
      [] outcome = "timeout" ->
            "Connection timeout. Please ensure Petra wallet is unlocked."
      [] outcome = "none" -> "Connection request returned no result"
      [] outcome = "noAccount" -> "Failed to get account from wallet after connection"
      [] OTHER -> "Failed to connect wallet. Please try again."

NotInstalled ==
    "Petra wallet is not installed. Please install Petra wallet to continue."

\* connectWallet is called: without a wallet it throws at once, outside the
\* try; with one it awaits window.aptos.connect()
ConnectWalletCall ==
    /\ wallet # Null
    /\ wallet.connectPc \in {"idle", "resolved", "failed"}
    /\ wallet' = IF wallet.installed
                 THEN [wallet EXCEPT !.connectPc = "connect", !.returned = NoEntry,
                                     !.error = ""]
                 ELSE [wallet EXCEPT !.connectPc = "failed", !.returned = NoEntry,
                                     !.error = NotInstalled,
                                     !.before = wallet.cache]
    /\ UNCHANGED <<nodes, edges, selectedNetwork, executionData, stopped, pc,
                   executionOrder, pos, pending, result, trace, world, run,
                   previous, reentry, generator, batch, request>>

\* window.aptos.connect() settles: with a result connectWallet goes on to
\* window.aptos.account(); otherwise its catch removes the entry and throws
ConnectSettles ==
    /\ wallet # Null
    /\ wallet.connectPc = "connect"
    /\ \E outcome \in ConnectOutcomes :
          wallet' = IF outcome = "ok"
                    THEN [wallet EXCEPT !.connectPc = "account"]
                    ELSE [wallet EXCEPT !.connectPc = "failed",
                                        !.error = ConnectError(outcome),
                                        !.before = wallet.cache,
                                        !.cache = RemoveItem(wallet.cache)]
    /\ UNCHANGED <<nodes, edges, selectedNetwork, executionData, stopped, pc,
                   executionOrder, pos, pending, result, trace, world, run,
                   previous, reentry, generator, batch, request>>

\* window.aptos.account() settles: with an address the entry is set and the
\* account returned; otherwise the entry is removed and connectWallet throws
AccountSettles ==
    /\ wallet # Null
    /\ wallet.connectPc = "account"
    /\ \E outcome \in AccountOutcomes :
          wallet' = IF outcome \in Addresses
                    THEN [wallet EXCEPT !.connectPc = "resolved",
                                        !.returned = outcome,
                                        !.before = wallet.cache,
                                        !.cache = SetItem(wallet.cache, outcome)]
                    ELSE [wallet EXCEPT !.connectPc = "failed",
                                        !.error = ConnectError(
                                           IF outcome = "none" THEN "noAccount"
                                           ELSE "other"),
                                        !.before = wallet.cache,
                                        !.cache = RemoveItem(RemoveItem(wallet.cache))]
    /\ UNCHANGED <<nodes, edges, selectedNetwork, executionData, stopped, pc,
                   executionOrder, pos, pending, result, trace, world, run,
                   previous, reentry, generator, batch, request>>

\* disconnectWallet is called: with a wallet it awaits window.aptos.disconnect();
\* without one it removes the entry and resolves
DisconnectWalletCall ==
    /\ wallet # Null
    /\ wallet.disconnectPc \in {"idle", "resolved"}
    /\ wallet' = IF wallet.installed
                 THEN [wallet EXCEPT !.disconnectPc = "disconnecting",
                                     !.disconnectThrew = FALSE]
                 ELSE [wallet EXCEPT !.disconnectPc = "resolved",
                                     !.disconnectThrew = FALSE,
                                     !.before = wallet.cache,
                                     !.cache = RemoveItem(wallet.cache)]
    /\ UNCHANGED <<nodes, edges, selectedNetwork, executionData, stopped, pc,
                   executionOrder, pos, pending, result, trace, world, run,
                   previous, reentry, generator, batch, request>>

\* window.aptos.disconnect() settles, with or without an error (logged); the
\* entry is removed
DisconnectSettles ==
    /\ wallet # Null
    /\ wallet.disconnectPc = "disconnecting"
    /\ \E threw \in BOOLEAN :
          wallet' = [wallet EXCEPT !.disconnectPc = "resolved",
                                   !.disconnectThrew = threw,
                                   !.before = wallet.cache,
                                   !.cache = RemoveItem(wallet.cache)]
    /\ UNCHANGED <<nodes, edges, selectedNetwork, executionData, stopped, pc,
                   executionOrder, pos, pending, result, trace, world, run,
                   previous, reentry, generator, batch, request>>

\* getCurrentAccount, with no entry and a wallet that reports an account,
\* saves the address
GetCurrentAccountSaves ==
    /\ wallet # Null
    /\ wallet.installed
    /\ wallet.cache = NoEntry
    /\ \E address \in Addresses :
          wallet' = [wallet EXCEPT !.cache = SetItem(wallet.cache, address)]
    /\ UNCHANGED <<nodes, edges, selectedNetwork, executionData, stopped, pc,
                   executionOrder, pos, pending, result, trace, world, run,
                   previous, reentry, generator, batch, request>>

\* installed: whether window.aptos is defined; cache: the entry; connectPc and
\* disconnectPc: where a connectWallet and a disconnectWallet call stand;
\* returned and error: what the last connectWallet call resolved or threw
\* with; before: the entry as it was when a call last settled (history)
InitWallet ==
    /\ wallet \in [installed : BOOLEAN, cache : Addresses \cup {NoEntry, "junk"},
                    connectPc : {"idle"}, disconnectPc : {"idle"},
                    returned : {NoEntry}, error : {""}, disconnectThrew : {FALSE},
                    before : {NoEntry}]
    /\ nodes = <<>>
    /\ edges = <<>>
    /\ selectedNetwork = Testnet
    /\ executionData = <<>>
    /\ stopped = FALSE
    /\ pc = "idle"
    /\ executionOrder = <<>>
    /\ pos = 0
    /\ pending = Null
    /\ result = Null
    /\ trace = <<>>
    /\ world = Null
    /\ run = 0
    /\ previous = Null
    /\ reentry = Null
    /\ generator = Null
    /\ batch = Null
    /\ request = Null

NextWallet ==
    \/ ConnectWalletCall
    \/ ConnectSettles
    \/ AccountSettles
    \/ DisconnectWalletCall
    \/ DisconnectSettles
    \/ GetCurrentAccountSaves

SpecWallet == InitWallet /\ [][NextWallet]_vars

\* A call reaches the state in this step
Becomes(field, state) == wallet[field] # state /\ wallet'[field] = state

\* C40: when connectWallet resolves, the cache holds the address of the
\* account it returns; when it fails with the wallet installed (the request
\* is rejected, times out, returns nothing, or no account is reported), the
\* cache has no entry; when disconnectWallet resolves, the cache has no
\* entry, also when the wallet's own disconnect raised an error.  Each holds
\* whatever the cache held before and whatever other call is in flight.
C40_CacheFollowsConnection ==
    [][/\ Becomes("connectPc", "resolved") =>
             /\ wallet'.returned \in Addresses
             /\ wallet'.cache = wallet'.returned
       /\ (Becomes("connectPc", "failed") /\ wallet.installed) =>
             wallet'.cache = ""
       /\ (Becomes("connectPc", "failed") /\ ~wallet.installed) =>
             wallet'.cache = wallet.cache
       /\ Becomes("disconnectPc", "resolved") => wallet'.cache = ""]_vars

\* connectWallet timed out over a cached address, which is gone
C40_Witness ==
    /\ wallet.installed
    /\ wallet.connectPc = "failed"
    /\ wallet.error = ConnectError("timeout")
    /\ wallet.before = "0xA"
    /\ wallet.cache = ""

\* connectWallet resolved with another address than the cached one
C40_ReplacedSeen ==
    /\ wallet.connectPc = "resolved"
    /\ wallet.before = "0xA"
    /\ wallet.returned = "0xB"
    /\ wallet.cache = "0xB"

\* The wallet's disconnect raised an error, and the entry is gone
C40_DisconnectErrorSeen ==
    /\ wallet.disconnectPc = "resolved"
    /\ wallet.disconnectThrew
    /\ wallet.before = "0xA"
    /\ wallet.cache = ""

\* Without a wallet connectWallet fails and leaves the entry
C40_NotInstalledSeen ==
    /\ ~wallet.installed
    /\ wallet.connectPc = "failed"
    /\ wallet.error = NotInstalled
    /\ wallet.cache = "0xA"

====
